---- MODULE Spec2Model ----
(***************************************************************************)
(* A model of adfluo's computation graph engine (src/adfluo):              *)
(* ExtractionDAG.add_pipeline / solve_dependencies / prune_features, the   *)
(* pull protocol of CachedNode / SampleProcessorNode / FeatureNode /       *)
(* BatchProcessorNode, the Extractor's two extraction orders, its dropped  *)
(* features and hyperparameters, the SingleValueCache of cache.py, the     *)
(* fragment builder of pipeline.py and ExtractionPipeline.check.           *)
(*                                                                         *)
(* Node objects live in an arena (the variable nodes): the identity of a   *)
(* Python object is its index in the arena, the Root is index 0.  Python's *)
(* == on nodes is hash equality (BaseGraphNode.__eq__), which is what      *)
(* list.index and list.remove use; object identity is index equality.      *)
(* Hashes are modelled as the structure they are computed from, i.e.       *)
(* without collisions.                                                     *)
(***************************************************************************)
EXTENDS Integers, Sequences, FiniteSets, TLC

VARIABLES
    nodes,           \* arena of every node object built so far
    dag_nodes,       \* ExtractionDAG.nodes (list of node ids)
    feature_nodes,   \* ExtractionDAG.feature_nodes (dict, in insertion order)
    root_children,   \* RootNode.children
    needs_solving,   \* ExtractionDAG._needs_dependency_solving
    err,             \* the exception the last call ended with, or "ok"
    op,              \* the last call and its arguments
    added,           \* the pipelines given to add_pipeline so far, in order
    pruned,          \* number of prune_features calls so far
    solves,          \* number of solve_dependencies runs that passed the dirty flag
    skip_errors,     \* Extractor.skip_errors
    loader,          \* the dataset bound by set_loader, <<>> while none is
    calls,           \* per node and sample id, how often the processor ran
    pulled,          \* per node and sample id, how often the node was pulled
    npulls,          \* number of direct pulls of a feature node so far
    runs,            \* number of extraction runs so far
    result,          \* what the last extraction or pull returned
    cached_value,    \* SingleValueCache._cached_value
    has_been_cached, \* SingleValueCache._has_been_cached
    got,             \* what the last lookup in the single value cache gave
    cache_log,       \* the calls made on the single value cache so far
    branches,        \* PipelineDAG.branches: the head node of each branch
    pnodes,          \* arena of the node objects the fragment builder made
    built,           \* the elements appended to the fragment so far
    build_err,       \* the exception the last append ended with, or "ok"
    elements,        \* ExtractionPipeline.elements
    checked,         \* how the last ExtractionPipeline.check ended, "none" if stale
    dropped_features \* Extractor.dropped_features

\* the extraction DAG, the single value cache, the fragment under construction
gvars == <<nodes, dag_nodes, feature_nodes, root_children, needs_solving,
           err, op, added, pruned, solves, skip_errors, loader, calls, pulled,
           npulls, runs, result>>

cvars == <<cached_value, has_been_cached, got, cache_log>>

bvars == <<branches, pnodes, built, build_err, elements, checked>>

\* the settings of the Extractor
evars == <<dropped_features>>

vars == <<gvars, cvars, bvars, evars>>

-----------------------------------------------------------------------------
(* Bounds of the model *)

MaxAdds == 3

MaxPrunes == 1

MaxPulls == 4

MaxPullAdds == 2

MaxRuns == 2

MaxRunAdds == 2

MaxCacheOps == 4

MaxBuilds == 3

MaxElements == 3

Root == 0
NoNode == -1

EmptyMap == [x \in {} |-> 0]

-----------------------------------------------------------------------------
(* Generic list helpers *)

Last(s) == s[Len(s)]

Front(s) == SubSeq(s, 1, Len(s) - 1)

Range(s) == {s[i] : i \in 1..Len(s)}

RemoveAt(s, i) == SubSeq(s, 1, i - 1) \o SubSeq(s, i + 1, Len(s))

ReplaceAt(s, i, x) == [s EXCEPT ![i] = x]

-----------------------------------------------------------------------------
(* Samples and datasets: DictSample takes its id from the position in the  *)
(* list unless the dictionary has an "id" entry. *)

Sample(id, a, b) == [id |-> id, a |-> a, b |-> b]

DatasetA == << Sample("0", 1, 5), Sample("1", 2, 7) >>

DatasetB == << Sample("0", 2, 4), Sample("1", 1, 5) >>

\* a list whose second dictionary has the "id" entry "0"
DatasetC == << Sample("0", 1, 5), Sample("0", 2, 7) >>

Datasets == {DatasetA, DatasetB, DatasetC}

SampleIds == {"0", "1"}

-----------------------------------------------------------------------------
(* Pipeline fragments.  A fragment is a list of node templates in          *)
(* topological order, parents given as positions in the fragment, and the  *)
(* positions of its outputs.                                               *)

T(kind, proc, parents) == [kind |-> kind, proc |-> proc, parents |-> parents]

Pipelines == <<
    \* 1: Input("a") >> TimesTwo >> Feat("f")
    [nodes |-> << T("Input", "a", <<>>), T("Proc", "TimesTwo", <<1>>),
                  T("Feat", "f", <<2>>) >>,
     outputs |-> <<3>>],
    \* 2: Input("a") >> PlusOne >> Feat("g")
    [nodes |-> << T("Input", "a", <<>>), T("Proc", "PlusOne", <<1>>),
                  T("Feat", "g", <<2>>) >>,
     outputs |-> <<3>>],
    \* 3: Input("f") >> PlusOne >> Feat("h")
    [nodes |-> << T("Input", "f", <<>>), T("Proc", "PlusOne", <<1>>),
                  T("Feat", "h", <<2>>) >>,
     outputs |-> <<3>>],
    \* 4: Feat("f") >> PlusOne >> Feat("k")
    [nodes |-> << T("Feat", "f", <<>>), T("Proc", "PlusOne", <<1>>),
                  T("Feat", "k", <<2>>) >>,
     outputs |-> <<3>>],
    \* 5: ((Input("a") >> TimesTwo) + (Input("b") >> TimesTwo)) >> Add >> Feat("m")
    [nodes |-> << T("Input", "a", <<>>), T("Proc", "TimesTwo", <<1>>),
                  T("Input", "b", <<>>), T("Proc", "TimesTwo", <<3>>),
                  T("Proc", "Add", <<2, 4>>), T("Feat", "m", <<5>>) >>,
     outputs |-> <<6>>],
    \* 6: Input("a") >> TimesTwo >> (Feat("p") + (PlusOne >> Feat("q")))
    [nodes |-> << T("Input", "a", <<>>), T("Proc", "TimesTwo", <<1>>),
                  T("Feat", "p", <<2>>), T("Proc", "PlusOne", <<2>>),
                  T("Feat", "q", <<4>>) >>,
     outputs |-> <<3, 5>>],
    \* 7: Input("b") >> TimesTwo >> Feat("f")
    [nodes |-> << T("Input", "b", <<>>), T("Proc", "TimesTwo", <<1>>),
                  T("Feat", "f", <<2>>) >>,
     outputs |-> <<3>>],
    \* 8: Input("b") >> TimesTwo >> Feat("n")
    [nodes |-> << T("Input", "b", <<>>), T("Proc", "TimesTwo", <<1>>),
                  T("Feat", "n", <<2>>) >>,
     outputs |-> <<3>> ],
    \* 9: Input("a") >> Check >> Feat("r")
    [nodes |-> << T("Input", "a", <<>>), T("Proc", "Check", <<1>>),
                  T("Feat", "r", <<2>>) >>,
     outputs |-> <<3>>],
    \* 10: Input("a") >> Check >> PlusOne >> Feat("t")
    [nodes |-> << T("Input", "a", <<>>), T("Proc", "Check", <<1>>),
                  T("Proc", "PlusOne", <<2>>), T("Feat", "t", <<3>>) >>,
     outputs |-> <<4>>],
    \* 11: Input("b") >> Center >> Feat("u"), Center a BatchProcessor
    [nodes |-> << T("Input", "b", <<>>), T("Batch", "Center", <<1>>),
                  T("Feat", "u", <<2>>) >>,
     outputs |-> <<3>>],
    \* 12: Input("a") >> Check >> Center >> Feat("v")
    [nodes |-> << T("Input", "a", <<>>), T("Proc", "Check", <<1>>),
                  T("Batch", "Center", <<2>>), T("Feat", "v", <<3>>) >>,
     outputs |-> <<4>>],
    \* 13: ((Input("a") >> Check) + (Input("b") >> Center)) >> Add >> Feat("w")
    [nodes |-> << T("Input", "a", <<>>), T("Proc", "Check", <<1>>),
                  T("Input", "b", <<>>), T("Batch", "Center", <<3>>),
                  T("Proc", "Add", <<2, 4>>), T("Feat", "w", <<5>>) >>,
     outputs |-> <<6>>],
    \* 14: Input("a") >> Scale(k=hparam("h")) >> Feat("x")
    [nodes |-> << T("Input", "a", <<>>), T("Proc", "Scale(h)", <<1>>),
                  T("Feat", "x", <<2>>) >>,
     outputs |-> <<3>>],
    \* 15: Input("a") >> Scale(k=3) >> Feat("y")
    [nodes |-> << T("Input", "a", <<>>), T("Proc", "Scale(3)", <<1>>),
                  T("Feat", "y", <<2>>) >>,
     outputs |-> <<3>>],
    \* 16: (Input("a") + Input("b")) >> Sub >> Feat("d")
    [nodes |-> << T("Input", "a", <<>>), T("Input", "b", <<>>),
                  T("Proc", "Sub", <<1, 2>>), T("Feat", "d", <<3>>) >>,
     outputs |-> <<4>>],
    \* 17: Input("s") >> PlusOne >> Feat("s")
    [nodes |-> << T("Input", "s", <<>>), T("Proc", "PlusOne", <<1>>),
                  T("Feat", "s", <<2>>) >>,
     outputs |-> <<3>>],
    \* 18: Input("z") >> PlusOne >> Feat("c")
    [nodes |-> << T("Input", "z", <<>>), T("Proc", "PlusOne", <<1>>),
                  T("Feat", "c", <<2>>) >>,
     outputs |-> <<3>>],
    \* 19: Input("c") >> TimesTwo >> Feat("z")
    [nodes |-> << T("Input", "c", <<>>), T("Proc", "TimesTwo", <<1>>),
                  T("Feat", "z", <<2>>) >>,
     outputs |-> <<3>>]
>>

FeatureNames == {"f", "g", "h", "k", "m", "n", "p", "q", "r", "t", "u", "v", "w",
                 "x", "y", "d", "s", "z", "c"}

\* the children the builder gives a fragment node: its successors, in order
FragChildren(frag, i, base) ==
    LET RECURSIVE Go(_)
        Go(j) == IF j > Len(frag.nodes) THEN <<>>
                 ELSE (IF i \in Range(frag.nodes[j].parents)
                       THEN <<base + j>> ELSE <<>>) \o Go(j + 1)
    IN Go(1)

NewNode(kind, proc, is_feat, parents, children) ==
    [kind |-> kind, proc |-> proc, is_feat |-> is_feat,
     parents |-> parents, children |-> children,
     samples_cache |-> EmptyMap, samples_cache_hits |-> EmptyMap,
     failed_samples |-> {},
     has_computed_batch |-> FALSE, batch_cache |-> EmptyMap, proc_state |-> 0,
     batch_of |-> <<>>, whole_steps |-> 0]

\* the node objects of fragment frag, placed in the arena after base
Instantiate(frag, base) ==
    [i \in 1..Len(frag.nodes) |->
        NewNode(frag.nodes[i].kind, frag.nodes[i].proc, FALSE,
                [j \in 1..Len(frag.nodes[i].parents) |->
                    base + frag.nodes[i].parents[j]],
                FragChildren(frag, i, base))]

FragOutputs(frag, base) == [j \in 1..Len(frag.outputs) |-> base + frag.outputs[j]]

-----------------------------------------------------------------------------
(* Node identity *)

\* SampleProcessorNode.__hash__ / RootNode.__hash__
NodeHash(arena, n) ==
    IF n = Root THEN <<"Root">> ELSE <<arena[n].kind, arena[n].proc>>

\* BaseGraphNode.__eq__
NodeEq(arena, n, m) == NodeHash(arena, n) = NodeHash(arena, m)

\* BaseGraphNode.ancestor_hash, overridden by FeatureNode, InputNode, RootNode
RECURSIVE AncestorHash(_, _)
AncestorHash(arena, n) ==
    IF n = Root \/ arena[n].kind \in {"Input", "Feat"}
    THEN NodeHash(arena, n)
    ELSE LET RECURSIVE Parents(_)
             Parents(i) == IF i > Len(arena[n].parents) THEN <<>>
                           ELSE AncestorHash(arena, arena[n].parents[i])
                                \o Parents(i + 1)
         IN <<"(">> \o NodeHash(arena, n) \o Parents(1) \o <<")">>

\* index of the first element of list s that == n (list.index), 0 if none
IndexOf(arena, s, n) ==
    IF \E i \in 1..Len(s) : NodeEq(arena, s[i], n)
    THEN CHOOSE i \in 1..Len(s) :
            /\ NodeEq(arena, s[i], n)
            /\ \A j \in 1..(i - 1) : ~NodeEq(arena, s[j], n)
    ELSE 0

\* ExtractionDAG.genealogical_search
genealogical_search(arena, dnodes, searched) ==
    LET h == AncestorHash(arena, searched)
        hit == {i \in 1..Len(dnodes) : AncestorHash(arena, dnodes[i]) = h}
    IN IF hit = {} THEN NoNode
       ELSE dnodes[CHOOSE i \in hit : \A j \in hit : i <= j]

\* ExtractionDAG.inputs
inputs(arena, rchildren) == {arena[rchildren[i]].proc : i \in 1..Len(rchildren)}

\* ExtractionDAG.features
features(reg) == {reg[i].name : i \in 1..Len(reg)}

\* dict lookup in the registry: the node registered under name, or NoNode
Lookup(reg, name) ==
    IF name \in features(reg)
    THEN reg[CHOOSE i \in 1..Len(reg) : reg[i].name = name].node
    ELSE NoNode

-----------------------------------------------------------------------------
(* Graph edits *)

\* the children list of node p (the Root's children live in root_children)
ChildrenOf(d, p) == IF p = Root THEN d.root_children ELSE d.nodes[p].children

\* BaseGraphNode.replace_parent: the first parent that == old becomes new
replace_parent(arena, n, old, new) ==
    [arena EXCEPT ![n].parents =
        ReplaceAt(@, IndexOf(arena, arena[n].parents, old), new)]

\* list.remove: drops the first element that == n
RemoveFirst(arena, s, n) == RemoveAt(s, IndexOf(arena, s, n))

\* add_pipeline, lines 326-334: each parent of node is looked up in the DAG
RECURSIVE LinkParents(_, _, _)
LinkParents(w, node, todo) ==
    IF todo = <<>> \/ w.err # "ok" THEN w
    ELSE LET node_parent == Head(todo)
             dag_node == genealogical_search(w.nodes, w.dag_nodes, node_parent)
         IN IF dag_node # NoNode
            THEN IF IndexOf(w.nodes, w.nodes[node].parents, node_parent) = 0
                 THEN [w EXCEPT !.err = "ValueError: not in list"]
                 ELSE LinkParents(
                        [w EXCEPT !.nodes =
                            [replace_parent(w.nodes, node, node_parent, dag_node)
                                EXCEPT ![dag_node].children = Append(@, node)]],
                        node, Tail(todo))
            ELSE LinkParents([w EXCEPT !.stack = <<node_parent>> \o @],
                             node, Tail(todo))

\* add_pipeline, lines 310-334: the walk from the outputs towards the Root.
\* The deque is a list whose right end is its last element.
RECURSIVE Walk(_)
Walk(w) ==
    IF w.stack = <<>> \/ w.err # "ok" THEN w
    ELSE LET popped == Last(w.stack)
             isStub == /\ w.nodes[popped].kind = "Feat"
                       /\ w.nodes[popped].parents = <<>>
             arena1 == IF isStub
                       THEN Append(w.nodes,
                                NewNode("Input", w.nodes[popped].proc, TRUE,
                                        <<>>, <<>>))
                       ELSE w.nodes
             node == IF isStub THEN Len(arena1) ELSE popped
             w1 == [w EXCEPT !.nodes = arena1,
                             !.stack = Front(w.stack),
                             !.dag_nodes = Append(@, node)]
         IN IF arena1[node].kind = "Input"
            THEN IF arena1[node].proc \in inputs(arena1, w.root_children)
                 THEN [w1 EXCEPT !.err = "AssertionError"]
                 ELSE Walk([w1 EXCEPT !.nodes[node].parents = <<Root>>,
                                      !.root_children = Append(@, node)])
            ELSE Walk(LinkParents(w1, node, arena1[node].parents))

\* add_pipeline, lines 298-301: the outputs are registered one after the other
RECURSIVE Register(_, _, _)
\* variant: the outputs are registered without the assertion on their names
RegisterUnchecked(arena, reg, outs) ==
    IF outs = <<>> THEN [reg |-> reg, err |-> "ok"]
    ELSE Register(arena,
                  Append(reg, [name |-> arena[Head(outs)].proc,
                               node |-> Head(outs)]),
                  Tail(outs))

Register(arena, reg, outs) ==
    IF outs = <<>> THEN [reg |-> reg, err |-> "ok"]
    ELSE IF arena[Head(outs)].proc \in features(reg)
         THEN [reg |-> reg, err |-> "AssertionError"]
         ELSE Register(arena,
                       Append(reg, [name |-> arena[Head(outs)].proc,
                                    node |-> Head(outs)]),
                       Tail(outs))

\* the DAG as one record, for the operators that edit it
Dag == [nodes |-> nodes, dag_nodes |-> dag_nodes,
        feature_nodes |-> feature_nodes, root_children |-> root_children,
        needs_solving |-> needs_solving, err |-> "ok"]

\* ExtractionDAG.add_pipeline
add_pipeline(d, frag) ==
    LET base == Len(d.nodes)
        arena1 == d.nodes \o Instantiate(frag, base)
        outs == FragOutputs(frag, base)
        r == Register(arena1, d.feature_nodes, outs)
        d1 == [d EXCEPT !.nodes = arena1, !.feature_nodes = r.reg, !.err = r.err]
    IN IF r.err # "ok" THEN d1
       ELSE LET w == Walk([nodes |-> arena1, dag_nodes |-> d.dag_nodes,
                           root_children |-> d.root_children,
                           stack |-> outs, err |-> "ok"])
            IN [d1 EXCEPT !.nodes = w.nodes, !.dag_nodes = w.dag_nodes,
                          !.root_children = w.root_children, !.err = w.err,
                          !.needs_solving = IF w.err = "ok" THEN TRUE ELSE @]

\* solve_dependencies, lines 361-362
RECURSIVE RewireChildren(_, _, _, _)
RewireChildren(d, node, feature_node, todo) ==
    IF todo = <<>> \/ d.err # "ok" THEN d
    ELSE LET child_node == Head(todo)
         IN IF IndexOf(d.nodes, d.nodes[child_node].parents, node) = 0
            THEN [d EXCEPT !.err = "ValueError: not in list"]
            ELSE RewireChildren(
                    [d EXCEPT !.nodes = replace_parent(@, child_node, node,
                                                       feature_node)],
                    node, feature_node, Tail(todo))

\* solve_dependencies, lines 345-365
RECURSIVE SolveLoop(_, _)
\* variant: an input without matching feature is skipped, whatever its kind
SolveLoopLenient(d, todo) ==
    IF d.err # "ok" THEN d
    ELSE IF todo = <<>> THEN [d EXCEPT !.needs_solving = FALSE]
    ELSE LET node == Head(todo)
             feature_node == Lookup(d.feature_nodes, d.nodes[node].proc)
         IN IF feature_node = NoNode THEN SolveLoop(d, Tail(todo))
            ELSE LET d1 == RewireChildren(d, node, feature_node,
                                          d.nodes[node].children)
                 IN IF d1.err # "ok" THEN d1
                    ELSE SolveLoop(
                            [d1 EXCEPT
                                !.root_children = RemoveFirst(d1.nodes, @, node),
                                !.dag_nodes = RemoveFirst(d1.nodes, @, node)],
                            Tail(todo))

SolveLoop(d, todo) ==
    IF d.err # "ok" THEN d
    ELSE IF todo = <<>> THEN [d EXCEPT !.needs_solving = FALSE]
    ELSE LET node == Head(todo)
             feature_node == Lookup(d.feature_nodes, d.nodes[node].proc)
         IN IF feature_node = NoNode
            THEN IF d.nodes[node].is_feat
                 THEN [d EXCEPT !.err = "ValueError: No matching feature"]
                 ELSE SolveLoop(d, Tail(todo))
            ELSE LET d1 == RewireChildren(d, node, feature_node,
                                          d.nodes[node].children)
                 IN IF d1.err # "ok" THEN d1
                    ELSE IF \/ IndexOf(d1.nodes, d1.root_children, node) = 0
                            \/ IndexOf(d1.nodes, d1.dag_nodes, node) = 0
                    THEN [d1 EXCEPT !.err = "ValueError: not in list"]
                    ELSE SolveLoop(
                            [d1 EXCEPT
                                !.root_children = RemoveFirst(d1.nodes, @, node),
                                !.dag_nodes = RemoveFirst(d1.nodes, @, node)],
                            Tail(todo))

\* variant: the call returns at once and leaves the DAG as it is
solve_nothing(d) == d

\* ExtractionDAG.solve_dependencies
solve_dependencies(d) ==
    IF ~d.needs_solving THEN d ELSE SolveLoop(d, d.root_children)

\* prune_features, lines 401-404: node is detached from each of its parents
RECURSIVE DetachParents(_, _, _, _)
DetachParents(d, stack, node, todo) ==
    IF todo = <<>> \/ d.err # "ok" THEN [d |-> d, stack |-> stack]
    ELSE LET parent == Head(todo)
         IN IF IndexOf(d.nodes, ChildrenOf(d, parent), node) = 0
            THEN [d |-> [d EXCEPT !.err = "ValueError: not in list"], stack |-> stack]
            ELSE LET left == RemoveFirst(d.nodes, ChildrenOf(d, parent), node)
                     d1 == IF parent = Root
                           THEN [d EXCEPT !.root_children = left]
                           ELSE [d EXCEPT !.nodes[parent].children = left]
                 IN DetachParents(d1,
                                  IF left = <<>> THEN Append(stack, parent)
                                  ELSE stack,
                                  node, Tail(todo))

\* prune_features, lines 395-404
RECURSIVE PruneLoop(_, _, _)
PruneLoop(d, stack, kept_features) ==
    IF stack = <<>> \/ d.err # "ok" THEN d
    ELSE LET node == Last(stack)
             rest == Front(stack)
         IN IF /\ node # Root
               /\ d.nodes[node].kind = "Feat"
               /\ d.nodes[node].proc \in kept_features
            THEN PruneLoop(d, rest, kept_features)
            ELSE IF IndexOf(d.nodes, d.dag_nodes, node) = 0
                 THEN [d EXCEPT !.err = "ValueError: not in list"]
                 ELSE LET d1 == [d EXCEPT !.dag_nodes =
                                    RemoveFirst(d.nodes, @, node)]
                          r == DetachParents(d1, rest, node, d1.nodes[node].parents)
                      IN PruneLoop(r.d, r.stack, kept_features)

\* del self.feature_nodes[feat] for every removed feature
DelFeatures(reg, removed) ==
    SelectSeq(reg, LAMBDA e : e.name \notin removed)

\* the removed features that have no children, in the order the set yields them
LeafStack(d, order) ==
    LET leaf(name) == d.nodes[Lookup(d.feature_nodes, name)].children = <<>>
        RECURSIVE Go(_)
        Go(i) == IF i > Len(order) THEN <<>>
                 ELSE (IF leaf(order[i])
                       THEN <<Lookup(d.feature_nodes, order[i])>> ELSE <<>>)
                      \o Go(i + 1)
    IN Go(1)

\* ExtractionDAG.prune_features; keep_only is given when by_keep, else remove.
\* order lists the removed features as iterating the Python set yields them.
prune_features(d, by_keep, sel, order) ==
    LET kept_features == IF by_keep THEN features(d.feature_nodes) \cap sel
                         ELSE features(d.feature_nodes) \ sel
        removed_features == features(d.feature_nodes) \ kept_features
        d1 == solve_dependencies(d)
        d2 == PruneLoop(d1, LeafStack(d1, order), kept_features)
    IN IF d1.err # "ok" THEN d1
       ELSE IF d2.err # "ok" THEN d2
       ELSE [d2 EXCEPT !.feature_nodes = DelFeatures(@, removed_features)]

\* all the orders in which a finite set can be listed
Orders(S) ==
    {o \in [1..Cardinality(S) -> S] : \A i, j \in 1..Cardinality(S) :
                                          o[i] = o[j] => i = j}

-----------------------------------------------------------------------------
(* Pulling samples through the graph.  The pull state x carries the arena  *)
(* (whose nodes hold the caches), the Root's loader, and, kept for         *)
(* observation, calls, the processor invocations, and pulled, the          *)
(* __getitem__ calls, both per node and sample id, bad, the pulls          *)
(* (node, sample id) that raised BadSampleException, and raised, the       *)
(* processor calls (node, sample id) whose exception was raised again.     *)
(* notes is what the nodes have attached to the exception in flight.       *)

Count(m, key) == IF key \in DOMAIN m THEN m[key] ELSE 0

Put(m, key, v) == [x \in DOMAIN m \cup {key} |-> IF x = key THEN v ELSE m[x]]

Drop(m, key) == [x \in DOMAIN m \ {key} |-> m[x]]

Bump(m, key) == Put(m, key, Count(m, key) + 1)

Policy(skip, no_cache) == [skip_errors |-> skip, no_cache |-> no_cache]

Outcome(x, status, val) == [x |-> x, status |-> status, val |-> val]

Returned(val) == [ok |-> TRUE, val |-> val, exc |-> "ok"]

Raised(exc) == [ok |-> FALSE, val |-> 0, exc |-> exc]

\* the pull state over arena, with the counters cnt and pld and loader ldr
PullOf(arena, cnt, pld, ldr) ==
    [nodes |-> arena, calls |-> cnt, pulled |-> pld, bad |-> {}, loader |-> ldr,
     raised |-> <<>>, notes |-> {}]

\* the processors: Input reads the sample, Feat passes its argument on, and
\* the test processors of one or two arguments; Check raises on the value 2,
\* Sub takes its second argument from its first
ApplyProc(kind, proc, s, args) ==
    IF kind = "Input"
    THEN IF proc \in {"a", "b"} THEN Returned(s[proc]) ELSE Raised("KeyError")
    ELSE IF kind = "Feat"
    THEN IF Len(args) >= 1 THEN Returned(args[1]) ELSE Raised("IndexError")
    ELSE IF proc = "TimesTwo"
    THEN IF Len(args) = 1 THEN Returned(2 * args[1]) ELSE Raised("TypeError")
    ELSE IF proc = "PlusOne"
    THEN IF Len(args) = 1 THEN Returned(args[1] + 1) ELSE Raised("TypeError")
    ELSE IF proc = "Check"
    THEN IF Len(args) # 1 THEN Raised("TypeError")
         ELSE IF args[1] = 2 THEN Raised("ValueError")
         ELSE Returned(args[1])
    ELSE IF proc = "Sub"
    THEN IF Len(args) = 2 THEN Returned(args[1] - args[2])
         ELSE Raised("TypeError")
    ELSE IF Len(args) = 2 THEN Returned(args[1] + args[2])
         ELSE Raised("TypeError")

RECURSIVE Sum(_)
Sum(l) == IF l = <<>> THEN 0 ELSE Head(l) + Sum(Tail(l))

\* the batch processor Center, the whole dataset step: the mean of the data
\* becomes the processor's state
full_dataset_process(proc, all_samples_data) ==
    IF all_samples_data = <<>> THEN Raised("ZeroDivisionError")
    ELSE IF \E i \in 1..Len(all_samples_data) : all_samples_data[i] \notin Int
    THEN Raised("TypeError")
    ELSE Returned(Sum(all_samples_data) \div Len(all_samples_data))

\* the batch processor Center, called on one sample: values above 6 are
\* refused, the others are centered on the mean
ApplyBatch(proc, state, s, args) ==
    IF Len(args) # 1 THEN Raised("TypeError")
    ELSE IF args[1] > 6 THEN Raised("ValueError")
    ELSE Returned(args[1] - state)

RECURSIVE Pull(_, _, _, _)
RECURSIVE compute_sample(_, _, _, _)
RECURSIVE PullParents(_, _, _, _, _)

\* tuple(node[sample] for node in self.parents): r is the pull of the first
\* of the parents left
NextParent(r, todo, s, pol, acc) ==
    IF r.status # "ok" THEN r
    ELSE PullParents(r.x, Tail(todo), s, pol, Append(acc, r.val))

\* variant: the outputs of the parents are handed over last parent first
PullParentsReversed(x, todo, s, pol, acc) ==
    IF todo = <<>>
    THEN Outcome(x, "ok", [i \in 1..Len(acc) |-> acc[Len(acc) + 1 - i]])
    ELSE NextParent(Pull(x, Head(todo), s, pol), todo, s, pol, acc)

PullParents(x, todo, s, pol, acc) ==
    IF todo = <<>> THEN Outcome(x, "ok", acc)
    ELSE NextParent(Pull(x, Head(todo), s, pol), todo, s, pol, acc)

\* compute_sample, lines 140-146: the processor is called; under the strict
\* policy `raise err` hands on the exception of the processor as it is, and
\* attaches nothing to it
CallProcessor(x1, out, n, s, pol) ==
    IF out.ok THEN Outcome(x1, "ok", out.val)
    ELSE IF pol.skip_errors
    THEN Outcome([x1 EXCEPT !.nodes[n].failed_samples = @ \cup {s.id}],
                 "BadSampleException", 0)
    ELSE Outcome([x1 EXCEPT !.raised = Append(@, <<n, s.id>>)], out.exc, 0)

\* compute_sample, lines 133-146: r is the pull of the parents
Process(r, n, s, pol) ==
    IF r.status = "BadSampleException"
    THEN Outcome([r.x EXCEPT !.nodes[n].failed_samples = @ \cup {s.id}],
                 "BadSampleException", 0)
    ELSE IF r.status # "ok" THEN r
    ELSE CallProcessor([r.x EXCEPT !.calls = Bump(@, <<n, s.id>>)],
                       ApplyProc(r.x.nodes[n].kind, r.x.nodes[n].proc, s, r.val),
                       n, s, pol)

\* BaseGraphNode.iter_all_samples and RootNode.iter_all_samples
RECURSIVE iter_all_samples(_, _)
iter_all_samples(x, n) ==
    IF n = Root
    THEN IF x.loader = <<>> THEN Raised("TypeError") ELSE Returned(x.loader)
    ELSE IF x.nodes[n].parents = <<>> THEN Raised("RuntimeError")
    ELSE iter_all_samples(x, x.nodes[n].parents[1])

\* list(self.batch_cache.values()), with data[0] for data when the node has
\* one parent
RECURSIVE AllSamplesData(_, _)
AllSamplesData(batch_cache, one) ==
    IF DOMAIN batch_cache = {} THEN <<>>
    ELSE LET sid == CHOOSE i \in DOMAIN batch_cache : TRUE
         IN <<IF one THEN batch_cache[sid][1] ELSE batch_cache[sid]>>
            \o AllSamplesData(Drop(batch_cache, sid), one)

RECURSIVE BatchLoop(_, _, _, _)

\* compute_batch, lines 167-168: r is the pull of the parents for one sample
BatchPulled(r, n, todo, pol) ==
    IF r.status # "ok" THEN r
    ELSE BatchLoop([r.x EXCEPT !.nodes[n].batch_cache =
                                  Put(@, Head(todo).id, r.val)],
                   n, Tail(todo), pol)

\* compute_batch, lines 166-168: the loop over all the samples
BatchLoop(x, n, todo, pol) ==
    IF todo = <<>> THEN Outcome(x, "ok", 0)
    ELSE BatchPulled(PullParents(x, x.nodes[n].parents, Head(todo), pol, <<>>),
                     n, todo, pol)

\* compute_batch, lines 175-176: out is what full_dataset_process gave;
\* batch_of notes the dataset the batch was computed over and whole_steps
\* counts the calls of full_dataset_process
WholeStep(x, n, out) ==
    IF out.ok
    THEN Outcome([x EXCEPT !.nodes[n].proc_state = out.val,
                           !.nodes[n].has_computed_batch = TRUE,
                           !.nodes[n].batch_of = x.loader,
                           !.nodes[n].whole_steps = @ + 1], "ok", 0)
    ELSE Outcome([x EXCEPT !.nodes[n].whole_steps = @ + 1], out.exc, 0)

\* compute_batch, lines 169-176: r is the outcome of the loop
BatchDone(r, n) ==
    IF r.status # "ok" THEN r
    ELSE WholeStep(r.x, n,
                   full_dataset_process(
                       r.x.nodes[n].proc,
                       AllSamplesData(r.x.nodes[n].batch_cache,
                                      Len(r.x.nodes[n].parents) = 1)))

\* BatchProcessorNode.compute_batch
compute_batch(x, n, pol) ==
    IF ~iter_all_samples(x, n).ok
    THEN Outcome(x, iter_all_samples(x, n).exc, 0)
    ELSE BatchDone(BatchLoop(x, n, iter_all_samples(x, n).val, pol), n)

\* compute_sample, line 182: the batch processor is called
BatchCall(x, out) ==
    IF out.ok THEN Outcome(x, "ok", out.val) ELSE Outcome(x, out.exc, 0)

\* BatchProcessorNode.compute_sample, lines 181-182: r is the outcome of
\* compute_batch
BatchAnswer(r, n, s) ==
    IF r.status # "ok" THEN r
    ELSE IF s.id \notin DOMAIN r.x.nodes[n].batch_cache
    THEN Outcome(r.x, "KeyError", 0)
    ELSE BatchCall([r.x EXCEPT !.nodes[n].batch_cache = Drop(@, s.id),
                               !.calls = Bump(@, <<n, s.id>>)],
                   ApplyBatch(r.x.nodes[n].proc, r.x.nodes[n].proc_state, s,
                              r.x.nodes[n].batch_cache[s.id]))

\* BatchProcessorNode.compute_sample
batch_compute_sample(x, n, s, pol) ==
    IF x.nodes[n].has_computed_batch THEN BatchAnswer(Outcome(x, "ok", 0), n, s)
    ELSE BatchAnswer(compute_batch(x, n, pol), n, s)

\* SampleProcessorNode.compute_sample, with FeatureNode's check in front,
\* and BatchProcessorNode.compute_sample
compute_sample(x, n, s, pol) ==
    IF x.nodes[n].kind = "Batch" THEN batch_compute_sample(x, n, s, pol)
    ELSE IF x.nodes[n].kind = "Feat" /\ x.nodes[n].parents = <<>>
    THEN Outcome(x, "RuntimeError", 0)
    ELSE Process(PullParents(x, x.nodes[n].parents, s, pol, <<>>), n, s, pol)

\* variant: the entry is dropped one hit later
from_cache_late(x, n, s) ==
    LET hits == x.nodes[n].samples_cache_hits[s.id] + 1
        x1 == [x EXCEPT !.nodes[n].samples_cache_hits = Put(@, s.id, hits)]
    IN Outcome(IF hits > Len(x.nodes[n].children)
               THEN [x1 EXCEPT !.nodes[n].samples_cache = Drop(@, s.id)]
               ELSE x1,
               "ok", x.nodes[n].samples_cache[s.id])

\* CachedNode.from_cache, for a sample that is in the cache
from_cache(x, n, s) ==
    LET hits == x.nodes[n].samples_cache_hits[s.id] + 1
        x1 == [x EXCEPT !.nodes[n].samples_cache_hits = Put(@, s.id, hits)]
    IN Outcome(IF hits >= Len(x.nodes[n].children)
               THEN [x1 EXCEPT !.nodes[n].samples_cache = Drop(@, s.id)]
               ELSE x1,
               "ok", x.nodes[n].samples_cache[s.id])

\* CachedNode.to_cache
to_cache(x, n, s, data) ==
    [x EXCEPT !.nodes[n].samples_cache = Put(@, s.id, data),
              !.nodes[n].samples_cache_hits = Put(@, s.id, 1)]

\* __getitem__, lines 116-118: r is the outcome of compute_sample
Cached(r, n, s) ==
    IF r.status # "ok" THEN r
    ELSE Outcome(to_cache(r.x, n, s, r.val), "ok", r.val)

\* __getitem__: the pull is counted
Counted(x, n, s) == [x EXCEPT !.pulled = Bump(@, <<n, s.id>>)]

\* the pull of node n for sample s ended as r: a BadSampleException is noted
Noted(r, n, s) ==
    IF r.status = "BadSampleException"
    THEN [r EXCEPT !.x.bad = @ \cup {<<n, s.id>>}]
    ELSE r

\* variant: the cache is used whatever the number of children
PullAlwaysCached(x, n, s, pol) ==
    IF n = Root THEN Outcome(x, "ok", s)
    ELSE IF s.id \in x.nodes[n].failed_samples
    THEN Noted(Outcome(Counted(x, n, s), "BadSampleException", 0), n, s)
    ELSE IF s.id \in DOMAIN x.nodes[n].samples_cache
    THEN from_cache(Counted(x, n, s), n, s)
    ELSE Noted(Cached(compute_sample(Counted(x, n, s), n, s, pol), n, s), n, s)

\* CachedNode.__getitem__ and RootNode.__getitem__
Pull(x, n, s, pol) ==
    IF n = Root THEN Outcome(x, "ok", s)
    ELSE IF Len(x.nodes[n].children) <= 1 \/ pol.no_cache
    THEN Noted(compute_sample(Counted(x, n, s), n, s, pol), n, s)
    ELSE IF s.id \in x.nodes[n].failed_samples
    THEN Noted(Outcome(Counted(x, n, s), "BadSampleException", 0), n, s)
    ELSE IF s.id \in DOMAIN x.nodes[n].samples_cache
    THEN from_cache(Counted(x, n, s), n, s)
    ELSE Noted(Cached(compute_sample(Counted(x, n, s), n, s, pol), n, s), n, s)

-----------------------------------------------------------------------------
(* Extraction.  An extraction state e carries the DAG record d, the two    *)
(* counters, the storage contents data and the status of the run, and,     *)
(* kept for observation, touched: the positions in the dataset of the      *)
(* samples handed to a feature node.                                       *)

\* BaseStorage.store_feat: self._data[sample_id][feature] = value
RECURSIVE store_feat(_, _, _)
store_feat(data, feature, feat_dict) ==
    IF DOMAIN feat_dict = {} THEN data
    ELSE LET sid == CHOOSE i \in DOMAIN feat_dict : TRUE
             row == IF sid \in DOMAIN data THEN data[sid] ELSE EmptyMap
         IN store_feat(Put(data, sid, Put(row, feature, feat_dict[sid])),
                       feature, Drop(feat_dict, sid))

\* BaseStorage.store_sample: self._data[sample.id] = data
store_sample(data, s, feat_dict) == Put(data, s.id, feat_dict)

\* the pull state of an extraction state, and back
PullState(e) == PullOf(e.d.nodes, e.calls, e.pulled, e.loader)

WithPull(e, x) == [e EXCEPT !.d.nodes = x.nodes, !.calls = x.calls,
                            !.pulled = x.pulled,
                            !.raised = @ \o x.raised, !.notes = x.notes]

\* solve_dependencies at the head of an extraction: d1 is what it leaves
Solved(e, d1) == [e EXCEPT !.d = [d1 EXCEPT !.err = "ok"], !.status = d1.err]

\* the sample at the head of todo is handed to a feature node
Touch(e, todo) ==
    [e EXCEPT !.touched = @ \cup {Len(e.loader) - Len(todo) + 1}]

RECURSIVE FeatureLoop(_, _, _, _, _, _)

\* extract_feature_wise, lines 437-440: r is the pull of the feature node
FeaturePulled(r, e, feat_node, todo, sample_ids, feat_dict, pol) ==
    IF r.status = "ok"
    THEN FeatureLoop(WithPull(e, r.x), feat_node, Tail(todo),
                     sample_ids \cup {Head(todo).id},
                     Put(feat_dict, Head(todo).id, r.val), pol)
    ELSE IF r.status = "BadSampleException"
    THEN FeatureLoop(WithPull(e, r.x), feat_node, Tail(todo),
                     sample_ids \cup {Head(todo).id}, feat_dict, pol)
    ELSE [e |-> [WithPull(e, r.x) EXCEPT !.status = r.status],
          out |-> feat_dict]

\* variant: the loop over the loader without the check of the sample ids
FeatureLoopUnchecked(e, feat_node, todo, sample_ids, feat_dict, pol) ==
    IF todo = <<>> THEN [e |-> e, out |-> feat_dict]
    ELSE FeaturePulled(Pull(PullState(e), feat_node, Head(todo), pol),
                       Touch(e, todo), feat_node, todo, sample_ids, feat_dict,
                       pol)

\* extract_feature_wise, lines 429-441: the loop over the loader
FeatureLoop(e, feat_node, todo, sample_ids, feat_dict, pol) ==
    IF todo = <<>> THEN [e |-> e, out |-> feat_dict]
    ELSE IF Head(todo).id \in sample_ids
    THEN [e |-> [e EXCEPT !.status = "DuplicateSampleError"], out |-> feat_dict]
    ELSE FeaturePulled(Pull(PullState(e), feat_node, Head(todo), pol),
                       Touch(e, todo), feat_node, todo, sample_ids, feat_dict,
                       pol)

\* variant: the call first prunes the DAG down to the feature it extracts
extract_feature_wise_pruning(e, feature_name, dataset, pol) ==
    IF feature_name \notin features(e.d.feature_nodes)
    THEN [e |-> [e EXCEPT !.status = "KeyError"], out |-> EmptyMap]
    ELSE IF Solved(e, prune_features(e.d, TRUE, {feature_name},
                     CHOOSE o \in Orders(features(e.d.feature_nodes)
                                         \ {feature_name}) : TRUE)).status # "ok"
    THEN [e |-> Solved(e, prune_features(e.d, TRUE, {feature_name},
                     CHOOSE o \in Orders(features(e.d.feature_nodes)
                                         \ {feature_name}) : TRUE)),
          out |-> EmptyMap]
    ELSE FeatureLoop(Solved(e, prune_features(e.d, TRUE, {feature_name},
                     CHOOSE o \in Orders(features(e.d.feature_nodes)
                                         \ {feature_name}) : TRUE)),
                     Lookup(e.d.feature_nodes, feature_name), dataset,
                     {}, EmptyMap, pol)

\* ExtractionDAG.extract_feature_wise
extract_feature_wise(e, feature_name, dataset, pol) ==
    IF Solved(e, solve_dependencies(e.d)).status # "ok"
    THEN [e |-> Solved(e, solve_dependencies(e.d)), out |-> EmptyMap]
    ELSE FeatureLoop(Solved(e, solve_dependencies(e.d)),
                     Lookup(e.d.feature_nodes, feature_name), dataset,
                     {}, EmptyMap, pol)

RECURSIVE SampleLoop(_, _, _, _, _)

\* variant: the features left are given up at the first sample that fails
SamplePulledStopping(r, e, todo, s, feat_dict, pol) ==
    IF r.status = "ok"
    THEN SampleLoop(WithPull(e, r.x), Tail(todo), s,
                    Put(feat_dict, Head(todo).name, r.val), pol)
    ELSE IF r.status = "BadSampleException"
    THEN [e |-> WithPull(e, r.x), out |-> feat_dict]
    ELSE [e |-> [WithPull(e, r.x) EXCEPT !.status = r.status],
          out |-> feat_dict]

\* extract_sample_wise, lines 452-455: r is the pull of the feature node
SamplePulled(r, e, todo, s, feat_dict, pol) ==
    IF r.status = "ok"
    THEN SampleLoop(WithPull(e, r.x), Tail(todo), s,
                    Put(feat_dict, Head(todo).name, r.val), pol)
    ELSE IF r.status = "BadSampleException"
    THEN SampleLoop(WithPull(e, r.x), Tail(todo), s, feat_dict, pol)
    ELSE [e |-> [WithPull(e, r.x) EXCEPT !.status = r.status],
          out |-> feat_dict]

\* extract_sample_wise, lines 449-456: the loop over the registry
SampleLoop(e, todo, s, feat_dict, pol) ==
    IF todo = <<>> THEN [e |-> e, out |-> feat_dict]
    ELSE SamplePulled(Pull(PullState(e), Head(todo).node, s, pol),
                      e, todo, s, feat_dict, pol)

\* ExtractionDAG.extract_sample_wise
extract_sample_wise(e, s, pol) ==
    IF Solved(e, solve_dependencies(e.d)).status # "ok"
    THEN [e |-> Solved(e, solve_dependencies(e.d)), out |-> EmptyMap]
    ELSE SampleLoop(Solved(e, solve_dependencies(e.d)), e.d.feature_nodes, s,
                    EmptyMap, pol)

RECURSIVE ExtractFeatures(_, _, _, _)

\* variant: the feature is stored whether it is dropped or not
FeatureStoredAlways(r, todo, dataset, pol) ==
    IF r.e.status # "ok" THEN r.e
    ELSE ExtractFeatures(
            [r.e EXCEPT !.data = store_feat(@, Head(todo).name, r.out)],
            Tail(todo), dataset, pol)

\* _extract, lines 81-87: r is what extract_feature_wise returned
FeatureStored(r, todo, dataset, pol) ==
    IF r.e.status # "ok" THEN r.e
    ELSE IF Head(todo).name \in r.e.dropped
    THEN ExtractFeatures(r.e, Tail(todo), dataset, pol)
    ELSE ExtractFeatures(
            [r.e EXCEPT !.data = store_feat(@, Head(todo).name, r.out)],
            Tail(todo), dataset, pol)

\* Extractor._extract, lines 78-91: feature-wise extraction
ExtractFeatures(e, todo, dataset, pol) ==
    IF todo = <<>> \/ e.status # "ok" THEN e
    ELSE FeatureStored(extract_feature_wise(e, Head(todo).name, dataset, pol),
                       todo, dataset, pol)

RECURSIVE ExtractSamples(_, _, _, _)

\* _extract, lines 106-108: del output_data[feat_name] for the dropped features
Without(output_data, dropped) ==
    [f \in DOMAIN output_data \ dropped |-> output_data[f]]

\* _extract, lines 101-116: r is what extract_sample_wise returned
SampleStored(r, todo, sample_ids, pol) ==
    IF r.e.status # "ok" THEN r.e
    ELSE ExtractSamples(
            [r.e EXCEPT !.data = store_sample(@, Head(todo),
                                              Without(r.out, r.e.dropped))],
            Tail(todo), sample_ids \cup {Head(todo).id}, pol)

\* Extractor._extract, lines 93-116: sample-wise extraction
ExtractSamples(e, todo, sample_ids, pol) ==
    IF todo = <<>> \/ e.status # "ok" THEN e
    ELSE IF Head(todo).id \in sample_ids
    THEN [e EXCEPT !.status = "DuplicateSampleError"]
    ELSE SampleStored(extract_sample_wise(Touch(e, todo), Head(todo), pol),
                      todo, sample_ids, pol)

\* the extraction state a run starts from: a fresh BaseStorage, the
\* dataset bound by set_loader, and the extractor's dropped features
Fresh(d, cnt, pld, dataset, dropped) ==
    [d |-> d, calls |-> cnt, pulled |-> pld, loader |-> dataset,
     data |-> EmptyMap, status |-> "ok", touched |-> {}, dropped |-> dropped,
     raised |-> <<>>, notes |-> {}]

\* Extractor._extract
extract(d, cnt, pld, dataset, extraction_order, pol, dropped) ==
    IF extraction_order = "feature"
    THEN ExtractFeatures(Fresh(d, cnt, pld, dataset, dropped), d.feature_nodes,
                         dataset, pol)
    ELSE ExtractSamples(Fresh(d, cnt, pld, dataset, dropped), dataset, {}, pol)

-----------------------------------------------------------------------------
(* The state machine *)

Op(name, k, sel, sid) == [name |-> name, k |-> k, sel |-> sel, sid |-> sid]

\* Python's None, as a cached value
None == "None"

\* the values put in the single value cache
CacheValues == {"v1", "v2", "v3"}

NoGot == [status |-> "none", val |-> None]

NoResult ==
    [status |-> "none", val |-> 0, data |-> EmptyMap, bad |-> {}, touched |-> {},
     raised |-> <<>>, notes |-> {}]

Init ==
    /\ nodes = <<>>
    /\ dag_nodes = <<>>
    /\ feature_nodes = <<>>
    /\ root_children = <<>>
    /\ needs_solving = FALSE
    /\ err = "ok"
    /\ op = Op("init", 0, {}, "")
    /\ added = <<>>
    /\ pruned = 0
    /\ solves = 0
    /\ skip_errors \in BOOLEAN
    /\ loader = <<>>
    /\ calls = EmptyMap
    /\ pulled = EmptyMap
    /\ npulls = 0
    /\ runs = 0
    /\ result = NoResult
    /\ cached_value = None
    /\ has_been_cached = FALSE
    /\ got = NoGot
    /\ cache_log = <<>>
    /\ branches = <<>>
    /\ pnodes = <<>>
    /\ built = <<>>
    /\ build_err = "ok"
    /\ elements = <<>>
    /\ checked = "none"
    /\ dropped_features = {}

SetDag(d) ==
    /\ nodes' = d.nodes
    /\ dag_nodes' = d.dag_nodes
    /\ feature_nodes' = d.feature_nodes
    /\ root_children' = d.root_children
    /\ needs_solving' = d.needs_solving
    /\ err' = d.err

\* Extractor.add_extraction / ExtractionDAG.add_pipeline
AddPipeline(k) ==
    /\ err = "ok"
    /\ Len(added) < MaxAdds
    /\ npulls = 0
    /\ runs = 0
    /\ SetDag(add_pipeline(Dag, Pipelines[k]))
    /\ op' = Op("add_pipeline", k, {}, "")
    /\ added' = Append(added, k)
    /\ UNCHANGED <<pruned, solves, skip_errors, loader, calls, pulled, npulls,
                   runs, result>>
    /\ UNCHANGED <<cvars, bvars, evars>>

\* ExtractionDAG.solve_dependencies
SolveDependencies ==
    /\ err = "ok"
    /\ SetDag(solve_dependencies(Dag))
    /\ op' = Op("solve_dependencies", 0, {}, "")
    /\ solves' = IF needs_solving THEN solves + 1 ELSE solves
    /\ UNCHANGED <<added, pruned, skip_errors, loader, calls, pulled, npulls,
                   runs, result>>
    /\ UNCHANGED <<cvars, bvars, evars>>

\* ExtractionDAG.prune_features
PruneFeatures(by_keep, sel, order) ==
    /\ err = "ok"
    /\ pruned < MaxPrunes
    /\ SetDag(prune_features(Dag, by_keep, sel, order))
    /\ op' = Op(IF by_keep THEN "prune_keep_only" ELSE "prune_remove", 0, sel, "")
    /\ pruned' = pruned + 1
    /\ solves' = IF needs_solving THEN solves + 1 ELSE solves
    /\ UNCHANGED <<added, skip_errors, loader, calls, pulled, npulls, runs,
                   result>>
    /\ UNCHANGED <<cvars, bvars, evars>>

\* the outcome r of a pull becomes the state
SetPulled(r) ==
    /\ nodes' = r.x.nodes
    /\ calls' = r.x.calls
    /\ pulled' = r.x.pulled
    /\ result' = [status |-> r.status, val |-> r.val, data |-> EmptyMap,
                  bad |-> r.x.bad, touched |-> {}, raised |-> r.x.raised,
                  notes |-> r.x.notes]

\* a feature node of the DAG is pulled for one sample: dag.feature_nodes[f][s]
PullFeature(f, s) ==
    /\ err = "ok"
    /\ npulls < MaxPulls
    /\ f \in features(feature_nodes)
    /\ SetPulled(Pull(PullOf(nodes, calls, pulled, loader),
                      Lookup(feature_nodes, f), s, Policy(skip_errors, FALSE)))
    /\ op' = Op("pull", 0, {f}, s.id)
    /\ npulls' = npulls + 1
    /\ UNCHANGED <<dag_nodes, feature_nodes, root_children, needs_solving, err,
                   added, pruned, solves, skip_errors, loader, runs>>
    /\ UNCHANGED <<cvars, bvars, evars>>

\* the extraction state e a run ends in becomes the state
SetExtracted(e) ==
    /\ SetDag([e.d EXCEPT !.err = e.status])
    /\ calls' = e.calls
    /\ pulled' = e.pulled
    /\ result' = [status |-> e.status, val |-> 0, data |-> e.data, bad |-> {},
                  touched |-> e.touched, raised |-> e.raised,
                  notes |-> e.notes]

\* Extractor.extract_to_dict with sample indexing
ExtractToDict(dataset, extraction_order, no_caching) ==
    /\ err = "ok"
    /\ runs < MaxRuns
    /\ SetExtracted(extract(Dag, calls, pulled, dataset, extraction_order,
                            Policy(skip_errors, no_caching), dropped_features))
    /\ loader' = dataset
    /\ op' = Op("extract_to_dict", IF no_caching THEN 1 ELSE 0,
                {extraction_order}, "")
    /\ runs' = runs + 1
    /\ solves' = IF needs_solving THEN solves + 1 ELSE solves
    /\ UNCHANGED <<added, pruned, skip_errors, npulls>>
    /\ UNCHANGED <<cvars, bvars, evars>>

\* SingleValueCache.__setitem__
SvPut(s, value) ==
    /\ Len(cache_log) < MaxCacheOps
    /\ cached_value' = value
    /\ has_been_cached' = TRUE
    /\ cache_log' = Append(cache_log, [name |-> "put", sid |-> s, val |-> value])
    /\ UNCHANGED <<got, gvars, bvars, evars>>

\* SingleValueCache.__getitem__
SvGet(s) ==
    /\ Len(cache_log) < MaxCacheOps
    /\ got' = IF has_been_cached THEN [status |-> "KeyError", val |-> None]
              ELSE [status |-> "ok", val |-> cached_value]
    /\ cache_log' = Append(cache_log, [name |-> "get", sid |-> s, val |-> None])
    /\ UNCHANGED <<cached_value, has_been_cached, gvars, bvars, evars>>

\* SingleValueCache.reset
SvReset ==
    /\ Len(cache_log) < MaxCacheOps
    /\ has_been_cached' = FALSE
    /\ cached_value' = None
    /\ cache_log' = Append(cache_log, [name |-> "reset", sid |-> "", val |-> None])
    /\ UNCHANGED <<got, gvars, bvars, evars>>

\* the pipelines without failing and without batch processors
GraphPipelines == 1..8

\* CachedNode.reset_cache, called on every node of the DAG
reset_cache(node) ==
    [node EXCEPT !.samples_cache = EmptyMap, !.samples_cache_hits = EmptyMap]

ResetCache ==
    /\ err = "ok"
    /\ runs >= 1
    /\ op.name # "reset_cache"
    /\ nodes' = [n \in 1..Len(nodes) |->
                    IF n \in Range(dag_nodes) THEN reset_cache(nodes[n])
                    ELSE nodes[n]]
    /\ op' = Op("reset_cache", 0, {}, "")
    /\ UNCHANGED <<dag_nodes, feature_nodes, root_children, needs_solving, err,
                   added, pruned, solves, skip_errors, loader, calls, pulled,
                   npulls, runs, result>>
    /\ UNCHANGED <<cvars, bvars, evars>>

\* ExtractionDAG.set_loader
SetLoader(dataset) ==
    /\ err = "ok"
    /\ loader # dataset
    /\ loader' = dataset
    /\ op' = Op("set_loader", 0, {}, "")
    /\ UNCHANGED <<nodes, dag_nodes, feature_nodes, root_children,
                   needs_solving, err, added, pruned, solves, skip_errors,
                   calls, pulled, npulls, runs, result>>
    /\ UNCHANGED <<cvars, bvars, evars>>

\* ProcessorBase.hparams: the names of the hyperparameters a processor is
\* still waiting for.  A processor is written as its class and parameters,
\* which is what its hash is computed from.
proc_hparams(proc) == IF proc = "Scale(h)" THEN {"h"} ELSE {}

\* ProcessorBase.set_hparams: the parameter takes the value given for its
\* hyperparameter
proc_set_hparams(proc, params) ==
    IF proc = "Scale(h)" /\ "h" \in DOMAIN params
    THEN IF params["h"] = 2 THEN "Scale(2)" ELSE "Scale(3)"
    ELSE proc

\* the nodes of the DAG that are SampleProcessorNodes
ProcessorNodes(arena, dnodes) ==
    {n \in Range(dnodes) : arena[n].kind \in {"Proc", "Input", "Feat"}}

\* Extractor.hparams
hparams(arena, dnodes) ==
    UNION {proc_hparams(arena[n].proc) : n \in ProcessorNodes(arena, dnodes)}

\* the values given to set_hparams
HparamValues ==
    {EmptyMap, [x \in {"h"} |-> 2], [x \in {"h"} |-> 3]}

\* Extractor.set_hparams
SetHparams(params) ==
    /\ err = "ok"
    /\ IF DOMAIN params # hparams(nodes, dag_nodes)
       THEN /\ err' = "AssertionError"
            /\ nodes' = nodes
       ELSE /\ err' = err
            /\ nodes' = [n \in 1..Len(nodes) |->
                            IF n \in ProcessorNodes(nodes, dag_nodes)
                            THEN [nodes[n] EXCEPT
                                    !.proc = proc_set_hparams(@, params)]
                            ELSE nodes[n]]
    /\ op' = Op("set_hparams", 0, DOMAIN params, "")
    /\ UNCHANGED <<dag_nodes, feature_nodes, root_children, needs_solving,
                   added, pruned, solves, skip_errors, loader, calls, pulled,
                   npulls, runs, result>>
    /\ UNCHANGED <<cvars, bvars, evars>>

\* Extractor.add_extraction with drop_on_save: the outputs of the pipeline
\* are added to the dropped features once the DAG has taken it
AddDropping(k) ==
    /\ err = "ok"
    /\ Len(added) < MaxAdds
    /\ npulls = 0
    /\ runs = 0
    /\ SetDag(add_pipeline(Dag, Pipelines[k]))
    /\ dropped_features' =
          IF add_pipeline(Dag, Pipelines[k]).err = "ok"
          THEN dropped_features \cup
               {Pipelines[k].nodes[Pipelines[k].outputs[j]].proc :
                   j \in 1..Len(Pipelines[k].outputs)}
          ELSE dropped_features
    /\ op' = Op("add_pipeline", k, {"drop_on_save"}, "")
    /\ added' = Append(added, k)
    /\ UNCHANGED <<pruned, solves, skip_errors, loader, calls, pulled, npulls,
                   runs, result>>
    /\ UNCHANGED <<cvars, bvars>>

\* extractor.dropped_features.add(name)
DropFeature(name) ==
    /\ err = "ok"
    /\ name \notin dropped_features
    /\ dropped_features' = dropped_features \cup {name}
    /\ op' = Op("drop", 0, {name}, "")
    /\ UNCHANGED <<nodes, dag_nodes, feature_nodes, root_children,
                   needs_solving, err, added, pruned, solves, skip_errors,
                   loader, calls, pulled, npulls, runs, result>>
    /\ UNCHANGED <<cvars, bvars>>

\* pipelines are declared, some with drop_on_save, features are put in the
\* dropped features, and the extractor is run
DropPipelines == {1, 2, 3, 4}

DropNames == {"f", "g", "h"}

NextDrop ==
    \/ \E k \in DropPipelines : Len(added) < MaxRunAdds /\ AddPipeline(k)
    \/ \E k \in DropPipelines : Len(added) < MaxRunAdds /\ AddDropping(k)
    \/ \E name \in DropNames : DropFeature(name)
    \/ \E extraction_order \in {"feature", "sample"} : \E no_caching \in BOOLEAN :
            ExtractToDict(DatasetA, extraction_order, no_caching)

SpecDrop == Init /\ [][NextDrop]_vars

\* pipelines with a processor waiting for a hyperparameter are declared and
\* the hyperparameters are set
HparamPipelines == {1, 14, 15}

NextHparams ==
    \/ \E k \in HparamPipelines : AddPipeline(k)
    \/ \E params \in HparamValues : SetHparams(params)

SpecHparams == Init /\ [][NextHparams]_vars

Next ==
    \/ \E k \in GraphPipelines : AddPipeline(k)
    \/ SolveDependencies
    \/ \E by_keep \in BOOLEAN :
       \E sel \in (SUBSET features(feature_nodes)) \ {{}} :
       \E order \in Orders(features(feature_nodes) \
                           (IF by_keep THEN sel
                            ELSE features(feature_nodes) \ sel)) :
            PruneFeatures(by_keep, sel, order)

Spec == Init /\ [][Next]_vars

\* pipelines are declared, then feature nodes are pulled directly
PullPipelines == {1, 2, 5, 6, 16}

NextPull ==
    \/ \E k \in PullPipelines : Len(added) < MaxPullAdds /\ AddPipeline(k)
    \/ \E f \in FeatureNames : \E s \in Range(DatasetA) : PullFeature(f, s)

SpecPull == Init /\ [][NextPull]_vars

\* pipelines with a failing processor are declared, a dataset is bound, then
\* feature nodes are pulled directly for the samples of the dataset
FailPipelines == {9, 10, 12}

NextFail ==
    \/ \E k \in FailPipelines : Len(added) < MaxPullAdds /\ AddPipeline(k)
    \/ \E dataset \in {DatasetA, DatasetB} : SetLoader(dataset)
    \/ \E f \in FeatureNames : \E s \in Range(loader) : PullFeature(f, s)

SpecFail == Init /\ [][NextFail]_vars

RunPipelines == {1, 3, 4, 5, 8, 9, 10, 11, 12, 13}

\* pipelines are declared, then the extractor is run over datasets, the
\* caches of the nodes being reset or not between the runs
NextRun ==
    \/ \E k \in RunPipelines : Len(added) < MaxRunAdds /\ AddPipeline(k)
    \/ \E dataset \in Datasets : \E extraction_order \in {"feature", "sample"} :
       \E no_caching \in BOOLEAN :
            ExtractToDict(dataset, extraction_order, no_caching)
    \/ ResetCache

SpecRun == Init /\ [][NextRun]_vars

\* pipelines are declared, features are pruned and the extractor is run
LifePipelines == {1, 2, 3, 4}

NextLife ==
    \/ \E k \in LifePipelines : Len(added) < MaxRunAdds /\ AddPipeline(k)
    \/ \E by_keep \in BOOLEAN :
       \E sel \in (SUBSET features(feature_nodes)) \ {{}} :
       \E order \in Orders(features(feature_nodes) \
                           (IF by_keep THEN sel
                            ELSE features(feature_nodes) \ sel)) :
            PruneFeatures(by_keep, sel, order)
    \/ \E extraction_order \in {"feature", "sample"} :
       \E no_caching \in BOOLEAN :
            ExtractToDict(DatasetA, extraction_order, no_caching)

SpecLife == Init /\ [][NextLife]_vars

\* pipelines whose inputs are named like features, their own or each
\* other's, are declared and the dependencies are solved
CyclePipelines == {1, 3, 17, 18, 19}

NextCycle ==
    \/ \E k \in CyclePipelines : AddPipeline(k)
    \/ SolveDependencies

SpecCycle == Init /\ [][NextCycle]_vars

\* Extractor.extract_to_dict, called again by a caller that caught the
\* DuplicateSampleError of the previous run
ExtractAfterDuplicate(dataset, extraction_order, no_caching) ==
    /\ err = "DuplicateSampleError"
    /\ runs < MaxRuns
    /\ SetExtracted(extract(Dag, calls, pulled, dataset, extraction_order,
                            Policy(skip_errors, no_caching), dropped_features))
    /\ loader' = dataset
    /\ op' = Op("extract_to_dict", IF no_caching THEN 1 ELSE 0,
                {extraction_order}, "")
    /\ runs' = runs + 1
    /\ solves' = IF needs_solving THEN solves + 1 ELSE solves
    /\ UNCHANGED <<added, pruned, skip_errors, npulls>>
    /\ UNCHANGED <<cvars, bvars, evars>>

\* pipelines are declared, then the extractor is run over datasets, a run
\* aborted by a duplicate sample id being followed by another run
DupPipelines == {1, 2, 3, 5, 11}

NextDup ==
    \/ \E k \in DupPipelines : Len(added) < MaxRunAdds /\ AddPipeline(k)
    \/ \E dataset \in Datasets : \E extraction_order \in {"feature", "sample"} :
       \E no_caching \in BOOLEAN :
            \/ ExtractToDict(dataset, extraction_order, no_caching)
            \/ ExtractAfterDuplicate(dataset, extraction_order, no_caching)

SpecDup == Init /\ [][NextDup]_vars

\* a single value cache is written, read and reset
NextCache ==
    \/ \E s \in SampleIds : \E value \in CacheValues : SvPut(s, value)
    \/ \E s \in SampleIds : SvGet(s)
    \/ SvReset

SpecCache == Init /\ [][NextCache]_vars

-----------------------------------------------------------------------------
(* The fragment builder of pipeline.py: a PipelineDAG holds one Branch per  *)
(* open output; branches is the list of their head nodes, pnodes the arena  *)
(* of the nodes built for the fragment.                                     *)

\* a pipeline element: a processor with the parameters of its process
\* signature, an input, a feature, or a tuple (class T) of these
Proc(name, n, variable) ==
    [kind |-> "Sample", name |-> name, nb_args |-> n, variable |-> variable]

InputEl(name) ==
    [kind |-> "Input", name |-> name, nb_args |-> 1, variable |-> TRUE]

FeatEl(name) ==
    [kind |-> "Feat", name |-> name, nb_args |-> 1, variable |-> TRUE]

TupleEl(els) == [kind |-> "T", elements |-> els]

\* the elements the builder is driven with
Processors ==
    {Proc("One", 1, FALSE), Proc("Two", 2, FALSE), Proc("Three", 3, FALSE),
     Proc("Any", 1, TRUE), Proc("TwoOrMore", 2, TRUE)}

Tuples ==
    {TupleEl(<<InputEl("a"), InputEl("b")>>),
     TupleEl(<<Proc("One", 1, FALSE), Proc("Any", 1, TRUE)>>),
     TupleEl(<<Proc("One", 1, FALSE), Proc("One", 1, FALSE), InputEl("b")>>)}

Elements == Processors \cup {InputEl("a"), FeatEl("f")} \cup Tuples

\* ProcessorBase.parameters
parameters(p) == [nb_args |-> p.nb_args, variable |-> p.variable]

\* ParametersCount.accept
accept(pc, n) == IF pc.variable THEN n >= pc.nb_args ELSE n = pc.nb_args

\* the nb_args attribute join_branches reads: the number of parameters of
\* the processor's signature
nb_args(p) == parameters(p).nb_args

\* a node of the fragment; proc_parents is the parents attribute that
\* Branch.append sets on the processor
PNode(kind, p) ==
    [kind |-> kind, proc |-> p, parents |-> <<>>, children |-> <<>>,
     proc_parents |-> <<>>]

\* wrap_processor: the class of the node built for a processor
wrap_processor(p) ==
    CASE p.kind = "Feat" -> "Feat"
      [] p.kind = "Batch" -> "Batch"
      [] p.kind \in {"Sample", "Input"} -> "Proc"
      [] OTHER -> "PipelineBuildError"

Failed(b, exc) == [b EXCEPT !.err = exc]

\* Branch.append on the i-th branch, whose head is set
BranchAppend(b, i, p) ==
    IF p.kind = "Input" THEN Failed(b, "AssertionError")
    ELSE IF wrap_processor(p) = "PipelineBuildError"
    THEN Failed(b, "PipelineBuildError")
    ELSE [b EXCEPT
            !.pnodes = Append([@ EXCEPT ![b.branches[i]].children =
                                            <<Len(b.pnodes) + 1>>],
                              [PNode(wrap_processor(p), p) EXCEPT
                                   !.proc_parents = <<Len(b.pnodes) + 1>>]),
            !.branches[i] = Len(b.pnodes) + 1]

\* PipelineDAG.create_branch, with Branch.append on the empty branch
create_branch(b, p) ==
    IF p.kind \notin {"Input", "Feat"} THEN Failed(b, "AssertionError")
    ELSE [b EXCEPT
            !.pnodes = Append(@, PNode("Proc",
                                       [InputEl(p.name) EXCEPT
                                            !.kind = "Input"])),
            !.branches = Append(@, Len(b.pnodes) + 1)]

\* PipelineDAG.split_branch: the loop over the elements from the i-th on
RECURSIVE SplitLoop(_, _, _, _)
SplitLoop(b, old, els, i) ==
    IF i > Len(els) THEN b
    ELSE IF wrap_processor(els[i]) = "PipelineBuildError"
    THEN Failed(b, "PipelineBuildError")
    ELSE SplitLoop([b EXCEPT
                      !.pnodes = Append(@, [PNode(wrap_processor(els[i]),
                                                  els[i])
                                              EXCEPT !.parents = <<old>>]),
                      !.branches = Append(@, Len(b.pnodes) + 1)],
                   old, els, i + 1)

\* PipelineDAG.split_branch
split_branch(b, t) ==
    SplitLoop([b EXCEPT !.branches = <<>>], b.branches[1], t.elements, 1)

\* PipelineDAG.add_tuple: the loop over the elements from the i-th on
RECURSIVE TupleLoop(_, _, _)
TupleLoop(b, els, i) ==
    IF i > Len(els) \/ b.err # "ok" THEN b
    ELSE IF i <= Len(b.branches)
    THEN TupleLoop(BranchAppend(b, i, els[i]), els, i + 1)
    ELSE TupleLoop(create_branch(b, els[i]), els, i + 1)

\* PipelineDAG.add_tuple
add_tuple(b, t) ==
    IF Len(b.branches) > Len(t.elements) THEN Failed(b, "AssertionError")
    ELSE TupleLoop(b, t.elements, 1)

\* join_branches without its assertion
join_branches_unchecked(b, p) ==
    [b EXCEPT
       !.pnodes = Append(@, [PNode(wrap_processor(p), p)
                               EXCEPT !.parents = b.branches]),
       !.branches = <<Len(b.pnodes) + 1>>]

\* PipelineDAG.join_branches
join_branches(b, p) ==
    IF Len(b.branches) # nb_args(p) THEN Failed(b, "AssertionError")
    ELSE [b EXCEPT
            !.pnodes = Append(@, [PNode(wrap_processor(p), p)
                                    EXCEPT !.parents = b.branches]),
            !.branches = <<Len(b.pnodes) + 1>>]

\* PipelineDAG.append
append(b, element) ==
    IF element.kind # "T"
    THEN IF Len(b.branches) = 0 THEN create_branch(b, element)
         ELSE IF Len(b.branches) = 1 THEN BranchAppend(b, 1, element)
         ELSE join_branches(b, element)
    ELSE IF Len(b.branches) = 1 THEN split_branch(b, element)
         ELSE add_tuple(b, element)

Builder == [branches |-> branches, pnodes |-> pnodes, err |-> build_err]

SetBuilder(b) ==
    /\ branches' = b.branches
    /\ pnodes' = b.pnodes
    /\ build_err' = b.err

\* pipeline_dag.append(element) in build_pipeline_tree
AppendElement(element) ==
    /\ build_err = "ok"
    /\ Len(built) < MaxBuilds
    /\ SetBuilder(append(Builder, element))
    /\ built' = Append(built, element)
    /\ UNCHANGED <<elements, checked>>
    /\ UNCHANGED <<gvars, cvars, evars>>

\* build_pipeline_tree starts from a new PipelineDAG
NewPipelineDAG ==
    /\ built # <<>>
    /\ branches' = <<>>
    /\ pnodes' = <<>>
    /\ build_err' = "ok"
    /\ built' = <<>>
    /\ UNCHANGED <<elements, checked>>
    /\ UNCHANGED <<gvars, cvars, evars>>

NextBuild ==
    \/ \E element \in Elements : AppendElement(element)
    \/ NewPipelineDAG

SpecBuild == Init /\ [][NextBuild]_vars

\* T.check: once a feature or an input has come, only features and inputs
\* may follow
T_check(els) ==
    IF \E i, j \in 1..Len(els) :
          /\ i < j
          /\ els[i].kind \in {"Feat", "Input"}
          /\ els[j].kind \notin {"Feat", "Input"}
    THEN "AssertionError" ELSE "ok"

\* the elements a pipeline is made of: a processor, an input, a feature, and
\* the tuples of two of these that T's constructor lets through
Singles == {Proc("One", 1, FALSE), InputEl("a"), FeatEl("f")}

PipelineElements ==
    Singles \cup {TupleEl(<<x, y>>) : <<x, y>> \in
                     {c \in Singles \X Singles : T_check(c) = "ok"}}

\* ExtractionPipeline.check
check(els) == "ok"

\* ExtractionPipeline.__rshift__ with a processor, a feature or a tuple
Rshift(other) ==
    /\ Len(elements) < MaxElements
    /\ elements' = Append(elements, other)
    /\ checked' = "none"
    /\ UNCHANGED <<branches, pnodes, built, build_err>>
    /\ UNCHANGED <<gvars, cvars, evars>>

\* pipeline.check()
CheckPipeline ==
    /\ elements # <<>>
    /\ checked = "none"
    /\ checked' = check(elements)
    /\ UNCHANGED <<branches, pnodes, built, build_err, elements>>
    /\ UNCHANGED <<gvars, cvars, evars>>

NextCheck ==
    \/ \E other \in PipelineElements : Rshift(other)
    \/ CheckPipeline

SpecCheck == Init /\ [][NextCheck]_vars

-----------------------------------------------------------------------------
(* Vocabulary of the properties *)

\* the nodes a node is computed from, itself included, the Root left out
RECURSIVE Anc(_, _)
Anc(arena, n) ==
    IF n = Root THEN {}
    ELSE {n} \cup UNION {Anc(arena, arena[n].parents[i]) :
                            i \in 1..Len(arena[n].parents)}

\* the nodes the registered features are computed from
Reachable(arena, reg) == UNION {Anc(arena, reg[i].node) : i \in 1..Len(reg)}

\* the feature names fragment k declares
OutNames(k) == {Pipelines[k].nodes[Pipelines[k].outputs[j]].proc :
                    j \in 1..Len(Pipelines[k].outputs)}

\* the step is a call of add_pipeline, of solve_dependencies, of prune_features
AddStep == added' # added

SolveStep == op'.name = "solve_dependencies" /\ needs_solving

PruneStep == pruned' # pruned

OnlyAdds == err = "ok" /\ added # <<>> /\ solves = 0 /\ pruned = 0 /\ runs = 0

-----------------------------------------------------------------------------
(* C2 *)

\* the processing steps and sample inputs the registered features are
\* computed from
Steps == {x \in Reachable(nodes, feature_nodes) :
             \/ nodes[x].kind = "Proc"
             \/ nodes[x].kind = "Input" /\ ~nodes[x].is_feat}

\* C2: after add_pipeline calls only, two steps with the same processors and
\* the same ancestry that registered features are computed from are one and
\* the same node, and each step is among the children of the steps it is
\* computed from.
C2_SharedPrefixIsOneNode ==
    OnlyAdds =>
        /\ \A x, y \in Steps :
              AncestorHash(nodes, x) = AncestorHash(nodes, y) => x = y
        /\ \A x \in Reachable(nodes, feature_nodes) :
           \A i \in 1..Len(nodes[x].parents) :
              nodes[x].parents[i] \in Steps =>
                  x \in Range(nodes[nodes[x].parents[i]].children)

-----------------------------------------------------------------------------
(* C3 *)

\* C3: after successful add_pipeline calls only, no two entries of the DAG's
\* node list have the same ancestor hash (so no node is listed twice).
C3_NoDuplicateInNodeList ==
    OnlyAdds =>
        \A i, j \in 1..Len(dag_nodes) :
            AncestorHash(nodes, dag_nodes[i]) = AncestorHash(nodes, dag_nodes[j])
                => i = j

-----------------------------------------------------------------------------
(* C6 *)

\* the root children solve_dependencies has to resolve
Resolvable == {n \in Range(root_children) :
                  nodes[n].proc \in features(feature_nodes)}

\* C6: a successful solve_dependencies removes every Input node named like a
\* registered feature from the node list and from the Root's children, puts
\* the Feature node in its place among the parents of each of its children,
\* and lists each of those children among the Feature node's children.
C6_SolveRewiresBothWays ==
    [][(SolveStep /\ err' = "ok") =>
         \A n \in Resolvable :
            LET feature_node == Lookup(feature_nodes, nodes[n].proc)
            IN /\ n \notin Range(dag_nodes')
               /\ n \notin Range(root_children')
               /\ inputs(nodes', root_children') \cap features(feature_nodes') = {}
               /\ \A c \in Range(nodes[n].children) :
                     /\ \A i \in 1..Len(nodes[c].parents) :
                           nodes[c].parents[i] = n =>
                               nodes'[c].parents[i] = feature_node
                     /\ c \in Range(nodes'[feature_node].children)]_vars

-----------------------------------------------------------------------------
(* C7 *)

\* the inputs declared as feature references that no registered feature matches
Unsolvable == {n \in Range(root_children) :
                  /\ nodes[n].is_feat
                  /\ nodes[n].proc \notin features(feature_nodes)}

\* C7: a DAG that holds an input declared as a feature reference whose name
\* no registered feature has is marked as needing dependency solving, and
\* solve_dependencies run on it raises the ValueError that names the input.
C7_UnsolvableFeatureRaises ==
    /\ [](Unsolvable # {} => needs_solving)
    /\ [][(SolveStep /\ Unsolvable # {}) =>
              err' = "ValueError: No matching feature"]_vars

\* a solve_dependencies call has raised on a feature reference without feature
C7_Witness ==
    /\ op.name = "solve_dependencies"
    /\ err = "ValueError: No matching feature"
    /\ Unsolvable # {}

-----------------------------------------------------------------------------
(* C8 *)

\* C8: add_pipeline of a fragment with an output name that is registered
\* raises the AssertionError and leaves the registered entries as they were,
\* and no name is ever registered twice.
C8_FeatureNamesUnique ==
    /\ [](\A i, j \in 1..Len(feature_nodes) :
             feature_nodes[i].name = feature_nodes[j].name => i = j)
    /\ [][(AddStep /\ OutNames(Last(added')) \cap features(feature_nodes) # {}) =>
             /\ err' = "AssertionError"
             /\ SubSeq(feature_nodes', 1, Len(feature_nodes)) = feature_nodes]_vars

\* an add_pipeline call was refused because an output name was registered
C8_Witness ==
    /\ op.name = "add_pipeline"
    /\ err = "AssertionError"
    /\ Len(added) >= 2
    /\ \E i \in 1..(Len(added) - 1) :
          OutNames(added[i]) \cap OutNames(Last(added)) # {}

-----------------------------------------------------------------------------
(* C9 *)

\* C9: an add_pipeline call that raises leaves the registry, the node list,
\* the Root's children and the edges of every earlier node as they were.
C9_AddIsAtomic ==
    [][(AddStep /\ err' # "ok") =>
         /\ feature_nodes' = feature_nodes
         /\ dag_nodes' = dag_nodes
         /\ root_children' = root_children
         /\ \A n \in 1..Len(nodes) :
               /\ nodes'[n].parents = nodes[n].parents
               /\ nodes'[n].children = nodes[n].children]_vars

-----------------------------------------------------------------------------
(* C10 *)

\* C10: after a successful prune_features every node of the node list, and
\* every node in the children list of such a node or of the Root, is a kept
\* Feature node or a node a kept Feature is computed from.
C10_PruneCollectsAll ==
    [][(PruneStep /\ err' = "ok") =>
         LET kept == Reachable(nodes', feature_nodes')
         IN /\ Range(dag_nodes') \subseteq kept
            /\ Range(root_children') \subseteq kept
            /\ \A n \in Range(dag_nodes') :
                  Range(nodes'[n].children) \subseteq kept]_vars

-----------------------------------------------------------------------------
(* C4 and C5 *)

\* the nodes of the DAG that have at least two children
SharedNodes == {n \in Range(dag_nodes) : Len(nodes[n].children) >= 2}

\* the least number of rounds of k pulls that cover p pulls
Rounds(p, k) == (p + k - 1) \div k

\* C4: a node with k >= 2 children holds the value of a sample from the pull
\* that computes it up to, and not including, the k-th pull; once it has been
\* pulled more than k times for the sample it has computed the value anew.
C4_CacheLifetime ==
    \A n \in SharedNodes : \A sid \in SampleIds :
        LET k == Len(nodes[n].children)
            p == Count(pulled, <<n, sid>>)
        IN /\ sid \in DOMAIN nodes[n].samples_cache <=> p % k # 0
           /\ p > k => Count(calls, <<n, sid>>) >= 2

\* a shared node has been pulled k + 1 times for a sample
C4_Witness ==
    \E n \in SharedNodes : \E sid \in SampleIds :
        /\ Count(pulled, <<n, sid>>) = Len(nodes[n].children) + 1
        /\ Count(calls, <<n, sid>>) = 2
        /\ sid \in DOMAIN nodes[n].samples_cache

\* every pull so far was a pull of feature f for sample sid
OnlyPulled(f, sid) ==
    /\ npulls >= 1
    /\ f \in features(feature_nodes)
    /\ Count(pulled, <<Lookup(feature_nodes, f), sid>>) = npulls

-----------------------------------------------------------------------------
(* C1 *)

Fields == {"a", "b"}

\* the fragment, among those added, that declares feature name
DeclOf(name) == CHOOSE k \in Range(added) : name \in OutNames(k)

\* the feature names fragment k takes as inputs
RefNames(k) ==
    {Pipelines[k].nodes[i].proc : i \in
        {i \in 1..Len(Pipelines[k].nodes) :
            \/ /\ Pipelines[k].nodes[i].kind = "Input"
               /\ Pipelines[k].nodes[i].proc \notin Fields
            \/ /\ Pipelines[k].nodes[i].kind = "Feat"
               /\ Pipelines[k].nodes[i].parents = <<>>}}

\* every feature a declared pipeline takes as input is declared
WellDefined ==
    \A k \in Range(added) : \A name \in RefNames(k) :
        \E j \in Range(added) : name \in OutNames(j)

\* the value of feature name for sample s, read off the declarations: the
\* processors of its pipeline applied in declaration order
RECURSIVE Expected(_, _)
RECURSIVE EvalT(_, _, _)
EvalT(k, i, s) ==
    LET t == Pipelines[k].nodes[i]
    IN IF t.kind = "Input"
       THEN IF t.proc \in Fields THEN s[t.proc] ELSE Expected(t.proc, s)
       ELSE IF t.kind = "Feat"
       THEN IF t.parents = <<>> THEN Expected(t.proc, s)
            ELSE EvalT(k, t.parents[1], s)
       ELSE ApplyProc(t.kind, t.proc, s,
                      [j \in 1..Len(t.parents) |-> EvalT(k, t.parents[j], s)]).val

\* no two samples of the dataset have the same id
DistinctIds(dataset) ==
    \A i, j \in 1..Len(dataset) : dataset[i].id = dataset[j].id => i = j

Expected(name, s) ==
    LET k == DeclOf(name)
    IN EvalT(k, CHOOSE i \in Range(Pipelines[k].outputs) :
                    Pipelines[k].nodes[i].proc = name, s)

\* C1: extraction over a dataset of distinct sample ids returns, for every
\* sample id and every registered feature, the value the feature's pipeline
\* gives on the sample, features taking declared features as input included
\* (pipelines whose processors do not fail).
C1_ExtractedValues ==
    (/\ op.name = "extract_to_dict"
     /\ WellDefined
     /\ DistinctIds(loader)
     /\ Range(added) \subseteq GraphPipelines) =>
        /\ result.status = "ok"
        /\ \A i \in 1..Len(loader) : \A f \in features(feature_nodes) :
              /\ loader[i].id \in DOMAIN result.data
              /\ f \in DOMAIN result.data[loader[i].id]
              /\ result.data[loader[i].id][f] = Expected(f, loader[i])

\* an extraction has returned the expected values of a feature that takes
\* another feature as input
C1_Witness ==
    /\ op.name = "extract_to_dict"
    /\ WellDefined
    /\ result.status = "ok"
    /\ "h" \in features(feature_nodes)
    /\ \A i \in 1..Len(loader) :
          /\ loader[i].id \in DOMAIN result.data
          /\ "h" \in DOMAIN result.data[loader[i].id]
          /\ result.data[loader[i].id]["h"] = Expected("h", loader[i])

-----------------------------------------------------------------------------
(* C11 *)

\* what a pull gave: how it ended and the value it returned
Observed(r) == <<r.status, r.val>>

\* the outcome of pulling feature f for sample s on a DAG whose caches are
\* empty
FeatureValue(arena, reg, f, s) ==
    Observed(Pull(PullOf(arena, EmptyMap, EmptyMap, <<>>),
                  Lookup(reg, f), s, Policy(FALSE, FALSE)))

\* the listed nodes of DAG d that feature f is computed from
ListedAnc(d, f) == Anc(d.nodes, Lookup(d.feature_nodes, f)) \cap Range(d.dag_nodes)

\* the pruned DAG (the primed variables) keeps feature f of the unpruned,
\* solved DAG d as it was
KeptAsIn(d, f) ==
    /\ ListedAnc(d, f) \subseteq Range(dag_nodes')
    /\ \A n \in ListedAnc(d, f) : nodes'[n].parents = d.nodes[n].parents
    /\ \A s \in Range(DatasetA) :
          FeatureValue(nodes', feature_nodes', f, s)
              = FeatureValue(d.nodes, d.feature_nodes, f, s)

\* the features a prune_features call with arguments o keeps
KeptBy(o, reg) ==
    IF o.name = "prune_keep_only" THEN features(reg) \cap o.sel
    ELSE features(reg) \ o.sel

\* C11: a prune_features call on a DAG whose dependencies solve succeeds
\* when it keeps a feature, and every kept feature then has the nodes it is
\* computed from still in the node list, wired as before, and a pull of it
\* gives for every sample what it gave on the unpruned DAG.
C11_PrunePreservesKept ==
    [][(PruneStep /\ solve_dependencies(Dag).err = "ok") =>
         \A f \in KeptBy(op', feature_nodes) :
            /\ err' = "ok"
            /\ KeptAsIn(solve_dependencies(Dag), f)]_vars

-----------------------------------------------------------------------------
(* C12 *)

\* the outcome of feature name for sample s of dataset, read off the
\* declarations: the value its pipeline gives, or the exception of the first
\* processor that raises.  A batch processor takes its whole dataset step
\* over the samples of the dataset its parent gives a value for.
RECURSIVE Specified(_, _, _)
RECURSIVE EvalO(_, _, _, _)
RECURSIVE EvalArgs(_, _, _, _, _)
EvalArgs(k, todo, s, dataset, acc) ==
    IF todo = <<>> THEN Returned(acc)
    ELSE IF ~EvalO(k, Head(todo), s, dataset).ok
    THEN EvalO(k, Head(todo), s, dataset)
    ELSE EvalArgs(k, Tail(todo), s, dataset,
                  Append(acc, EvalO(k, Head(todo), s, dataset).val))

\* the values the parent at position i gives over the samples of dataset
ColumnOf(k, i, dataset) ==
    LET given == SelectSeq(dataset, LAMBDA x : EvalO(k, i, x, dataset).ok)
    IN [j \in 1..Len(given) |-> EvalO(k, i, given[j], dataset).val]

\* the batch processor of template t applied to the arguments args
BatchOn(k, t, s, dataset, args) ==
    IF ~args.ok THEN args
    ELSE IF ~full_dataset_process(t.proc, ColumnOf(k, t.parents[1], dataset)).ok
    THEN full_dataset_process(t.proc, ColumnOf(k, t.parents[1], dataset))
    ELSE ApplyBatch(t.proc,
                    full_dataset_process(
                        t.proc, ColumnOf(k, t.parents[1], dataset)).val,
                    s, args.val)

\* the sample processor of template t applied to the arguments args
ProcOn(t, s, args) ==
    IF ~args.ok THEN args ELSE ApplyProc(t.kind, t.proc, s, args.val)

EvalO(k, i, s, dataset) ==
    LET t == Pipelines[k].nodes[i]
    IN IF t.kind = "Input"
       THEN IF t.proc \in Fields THEN Returned(s[t.proc])
            ELSE Specified(t.proc, s, dataset)
       ELSE IF t.kind = "Feat"
       THEN IF t.parents = <<>> THEN Specified(t.proc, s, dataset)
            ELSE EvalO(k, t.parents[1], s, dataset)
       ELSE IF t.kind = "Batch"
       THEN BatchOn(k, t, s, dataset, EvalArgs(k, t.parents, s, dataset, <<>>))
       ELSE ProcOn(t, s, EvalArgs(k, t.parents, s, dataset, <<>>))

Specified(name, s, dataset) ==
    EvalO(DeclOf(name),
          CHOOSE i \in Range(Pipelines[DeclOf(name)].outputs) :
              Pipelines[DeclOf(name)].nodes[i].proc = name,
          s, dataset)

\* the returned mapping has the entry of outcome o for sample sid and feature
\* f: the value when there is one, no entry when a processor raised
CellAs(o, sid, f) ==
    IF o.ok
    THEN /\ sid \in DOMAIN result.data
         /\ f \in DOMAIN result.data[sid]
         /\ result.data[sid][f] = o.val
    ELSE sid \notin DOMAIN result.data \/ f \notin DOMAIN result.data[sid]

\* the last call was a feature-wise extraction under skip_errors that returned
SkippingRun ==
    /\ op.name = "extract_to_dict"
    /\ op.sel = {"feature"}
    /\ skip_errors
    /\ result.status = "ok"
    /\ WellDefined
    /\ DistinctIds(loader)

\* C12: the mapping a feature-wise extraction under skip_errors returns has,
\* for every registered feature, no entry for the samples a processor of
\* the feature's pipeline raises on and the pipeline's value for every other
\* sample of the dataset.
C12_FailureSkip ==
    SkippingRun =>
        \A f \in features(feature_nodes) : \A i \in 1..Len(loader) :
            CellAs(Specified(f, loader[i], loader), loader[i].id, f)

-----------------------------------------------------------------------------
(* C13 *)

\* the step is a direct pull of a feature node
PullStep == npulls' # npulls

\* node n was pulled for sample sid in the step
PulledIn(n, sid) == Count(pulled', <<n, sid>>) > Count(pulled, <<n, sid>>)

\* the processor of node n was called for sample sid in the step
CalledIn(n, sid) == Count(calls', <<n, sid>>) > Count(calls, <<n, sid>>)

\* C13: when, in the course of a pull, a node raises BadSampleException for
\* sample S, each of its children that is pulled for S raises
\* BadSampleException too, has S in its failed samples afterwards, and has
\* not called its processor for S.
C13_FailureIsInfectious ==
    [][PullStep =>
         \A n \in 1..Len(nodes) : \A sid \in SampleIds :
            (/\ PulledIn(n, sid)
             /\ \E i \in 1..Len(nodes[n].parents) :
                   <<nodes[n].parents[i], sid>> \in result'.bad)
            => /\ <<n, sid>> \in result'.bad
               /\ sid \in nodes'[n].failed_samples
               /\ ~CalledIn(n, sid)]_vars

-----------------------------------------------------------------------------
(* C14 *)

\* C14: a pull of a node for a sample the node has among its failed samples
\* raises BadSampleException, pulls none of the node's parents and does not
\* call the node's processor.
C14_FailedNeverRecomputed ==
    [][PullStep =>
         \A n \in 1..Len(nodes) : \A sid \in SampleIds :
            (PulledIn(n, sid) /\ sid \in nodes[n].failed_samples)
            => /\ <<n, sid>> \in result'.bad
               /\ ~CalledIn(n, sid)
               /\ \A i \in 1..Len(nodes[n].parents) :
                     ~PulledIn(nodes[n].parents[i], sid)]_vars

-----------------------------------------------------------------------------
(* C15 *)

\* C15: under skip_errors an extraction, in either order, of well defined
\* features over a dataset with distinct sample ids returns: it ends with no
\* exception.
C15_SkippingRunCompletes ==
    (/\ op.name = "extract_to_dict"
     /\ skip_errors
     /\ WellDefined
     /\ DistinctIds(loader))
    => result.status = "ok"

-----------------------------------------------------------------------------
(* C16 *)

\* the position of the first sample of dataset whose id an earlier sample has
FirstDup(dataset) ==
    CHOOSE j \in 1..Len(dataset) :
        /\ \E i \in 1..(j - 1) : dataset[i].id = dataset[j].id
        /\ \A k \in 1..(j - 1) : \A i \in 1..(k - 1) :
              dataset[i].id # dataset[k].id

\* the last call was an extraction that traversed a dataset in which a
\* sample id comes twice
DuplicateRun ==
    /\ op.name = "extract_to_dict"
    /\ ~DistinctIds(loader)
    /\ op.sel = {"sample"} \/ feature_nodes # <<>>

-----------------------------------------------------------------------------
(* C17 *)

\* the step is a reset of the caches of the DAG's nodes
ResetStep == op'.name = "reset_cache" /\ op.name # "reset_cache"

\* C17: after the caches of the nodes have been reset, no node of the DAG
\* holds a cached value, a hit counter or a failed sample.
C17_ResetClearsAll ==
    [][ResetStep =>
         \A n \in Range(dag_nodes) :
            /\ nodes'[n].samples_cache = EmptyMap
            /\ nodes'[n].samples_cache_hits = EmptyMap
            /\ nodes'[n].failed_samples = {}]_vars

-----------------------------------------------------------------------------
(* C18 *)

\* the value of the last put since the last reset, None when there is none
RECURSIVE LastPut(_)
LastPut(log) ==
    IF log = <<>> \/ Last(log).name = "reset" THEN None
    ELSE IF Last(log).name = "put" THEN Last(log).val
    ELSE LastPut(Front(log))

\* the step is a lookup in the single value cache
GetStep == cache_log' # cache_log /\ Last(cache_log').name = "get"

\* C18: a lookup in the single value cache raises KeyError when no value was
\* put since the construction or the last reset, and otherwise returns, for
\* any sample, the value of the last put; the cache holds that value only.
C18_SingleValueCache ==
    /\ [](cached_value = LastPut(cache_log))
    /\ [][GetStep =>
             got' = IF LastPut(cache_log) = None
                    THEN [status |-> "KeyError", val |-> None]
                    ELSE [status |-> "ok", val |-> LastPut(cache_log)]]_vars

-----------------------------------------------------------------------------
(* C19 *)

\* the step is an extraction run
RunStep == runs' # runs

\* C19: when, in an extraction over a dataset, the processor of a batch node
\* answers the pull of a sample, the node has pulled every sample of that
\* dataset through its parents and has run the whole dataset step on their
\* outputs.
C19_BatchAfterWholeDataset ==
    [][RunStep =>
         \A n \in 1..Len(nodes') : \A sid \in SampleIds :
            (nodes'[n].kind = "Batch" /\ CalledIn(n, sid))
            => /\ nodes'[n].has_computed_batch
               /\ nodes'[n].batch_of = loader']_vars

-----------------------------------------------------------------------------
(* C20 *)

\* the step appends a processor to a fragment with several open outputs
MergeStep ==
    /\ Len(built') = Len(built) + 1
    /\ Last(built').kind # "T"
    /\ Len(branches) > 1

\* C20: appending a processor to a fragment with m > 1 outputs succeeds only
\* if the processor accepts m inputs, and then a new node is the single
\* output, with the m former outputs as its parents in order and the rest of
\* the fragment as it was; when the processor does not accept m inputs the
\* append ends with an error.
C20_MergeArity ==
    [][MergeStep =>
         /\ build_err' = "ok" =>
              /\ accept(parameters(Last(built')), Len(branches))
              /\ Len(branches') = 1
              /\ Len(pnodes') = Len(pnodes) + 1
              /\ branches'[1] = Len(pnodes')
              /\ pnodes'[branches'[1]].proc = Last(built')
              /\ pnodes'[branches'[1]].parents = branches
              /\ SubSeq(pnodes', 1, Len(pnodes)) = pnodes
         /\ ~accept(parameters(Last(built')), Len(branches)) =>
              /\ build_err' = "AssertionError"
              /\ pnodes' = pnodes
              /\ branches' = branches]_vars

\* a processor of two parameters has merged two outputs
C20_Witness ==
    /\ build_err = "ok"
    /\ Len(built) >= 2
    /\ Last(built).kind = "Sample"
    /\ Len(branches) = 1
    /\ Len(pnodes[branches[1]].parents) = 2
    /\ pnodes[branches[1]].proc = Last(built)

-----------------------------------------------------------------------------
(* C21 *)

\* the processors, inputs and features an element stands for
Parts(e) == IF e.kind = "T" THEN Range(e.elements) ELSE {e}

\* the fragment starts with a plain processor
StartsPlain(els) == \E p \in Parts(els[1]) : p.kind \notin {"Input", "Feat"}

\* the fragment ends with a plain processor on one of its output branches
EndsPlain(els) == \E p \in Parts(Last(els)) : p.kind # "Feat"

\* the fragment has an input appended after its first element
InputInMiddle(els) == \E i \in 2..Len(els) : els[i].kind = "Input"

\* the step is a call of check
CheckStep == checked = "none" /\ checked' # "none"

\* C21: check raises an error for a fragment that starts with a plain
\* processor, that ends with a plain processor on an output branch, or that
\* has an input in the middle.
C21_CheckRejectsMalformed ==
    [][(/\ CheckStep
        /\ \/ StartsPlain(elements)
           \/ EndsPlain(elements)
           \/ InputInMiddle(elements))
       => checked' # "ok"]_vars

-----------------------------------------------------------------------------
(* C22 *)

\* the nodes that are in the DAG before and after the step
Staying == Range(dag_nodes) \cap Range(dag_nodes')

\* C22: no operation changes the hash of the processor of a DAG node, and
\* two DAG nodes have the same ancestor hash after an operation exactly when
\* they had before it.
C22_ProcessorIdentityFixed ==
    [][/\ \A n \in Staying : NodeHash(nodes', n) = NodeHash(nodes, n)
       /\ \A n, m \in Staying :
             (AncestorHash(nodes', n) = AncestorHash(nodes', m))
             <=> (AncestorHash(nodes, n) = AncestorHash(nodes, m))]_vars

-----------------------------------------------------------------------------
(* C23 *)

\* the value of node n for sample s, read off the graph: each processor
\* applied to the values of the node's parents, in the order of its parents
RECURSIVE ValueOf(_, _, _)
ValueOf(arena, n, s) ==
    IF arena[n].kind = "Input" THEN s[arena[n].proc]
    ELSE IF arena[n].kind = "Feat" THEN ValueOf(arena, arena[n].parents[1], s)
    ELSE ApplyProc(arena[n].kind, arena[n].proc, s,
                   [j \in 1..Len(arena[n].parents) |->
                       ValueOf(arena, arena[n].parents[j], s)]).val

\* the sample of DatasetA with id sid
SampleOf(sid) == CHOOSE s \in Range(DatasetA) : s.id = sid

\* the feature the last pull asked for is computed through a node with
\* several parents
MergePull ==
    /\ op.name = "pull"
    /\ \E f \in op.sel : \E n \in Anc(nodes, Lookup(feature_nodes, f)) :
          Len(nodes[n].parents) >= 2

-----------------------------------------------------------------------------
(* C24 *)

\* no dropped feature is in the output
NoneDropped(data, dropped) ==
    \A sid \in DOMAIN data : DOMAIN data[sid] \cap dropped = {}

\* every value the run ref stored for a feature that is not dropped is in
\* the output, and the output has no other value
SameKept(data, ref, dropped) ==
    /\ \A sid \in DOMAIN ref : \A f \in DOMAIN ref[sid] \ dropped :
          /\ sid \in DOMAIN data
          /\ f \in DOMAIN data[sid]
          /\ data[sid][f] = ref[sid][f]
    /\ \A sid \in DOMAIN data : \A f \in DOMAIN data[sid] :
          sid \in DOMAIN ref /\ f \in DOMAIN ref[sid]

\* the run res ends as the run ref made with no dropped feature, and gives
\* its output less the dropped features
AsUndropped(res, ref, dropped) ==
    /\ res.status = ref.status
    /\ NoneDropped(res.data, dropped)
    /\ res.status = "ok" => SameKept(res.data, ref.data, dropped)

\* C24: in either extraction order, no dropped feature appears in the output
\* of an extraction, and every other feature has for every sample the value
\* the same extraction gives when nothing is dropped, features that depend
\* on a dropped feature included.
C24_DroppedFeatures ==
    [][RunStep =>
         AsUndropped(result',
                     extract(Dag, calls, pulled, loader',
                             IF "feature" \in op'.sel THEN "feature"
                             ELSE "sample",
                             Policy(skip_errors, op'.k = 1), {}),
                     dropped_features)]_vars

\* a run has left out the dropped feature f and given the value of feature
\* h, which is computed from f
C24_Witness ==
    /\ op.name = "extract_to_dict"
    /\ result.status = "ok"
    /\ "f" \in dropped_features
    /\ {"f", "h"} \subseteq features(feature_nodes)
    /\ \A i \in 1..Len(loader) :
          /\ loader[i].id \in DOMAIN result.data
          /\ "f" \notin DOMAIN result.data[loader[i].id]
          /\ "h" \in DOMAIN result.data[loader[i].id]
          /\ result.data[loader[i].id]["h"] = 2 * loader[i].a + 1

-----------------------------------------------------------------------------
(* C25 *)

\* the nodes of the DAG that bypass their cache in the run the step makes:
\* all of them when the run is made without caching, else those with at most
\* one child
Bypassing ==
    {n \in Range(dag_nodes') : op'.k = 1 \/ Len(nodes'[n].children) <= 1}

\* C25: an extraction stores no cache entry in a node with at most one
\* child, nor in any node when it is run without caching, and the value cache
\* of such a node is empty.
C25_CacheBypass ==
    [][RunStep =>
         \A n \in Bypassing :
            /\ nodes'[n].samples_cache = nodes[n].samples_cache
            /\ nodes'[n].samples_cache_hits = nodes[n].samples_cache_hits
            /\ nodes'[n].samples_cache = EmptyMap]_vars

-----------------------------------------------------------------------------
(* C26 *)

\* the Input nodes the DAG lists
DagInputs == {n \in Range(dag_nodes) : nodes[n].kind = "Input"}

\* C26: while only add_pipeline and solve_dependencies have been called,
\* every Input node the DAG lists has the Root as its only parent and is a
\* child of the Root, the children of the Root are exactly those Input nodes,
\* and no two children of the Root have the same data name.
C26_InputsUnderRoot ==
    pruned = 0 =>
        /\ \A n \in DagInputs :
              /\ nodes[n].parents = <<Root>>
              /\ n \in Range(root_children)
        /\ Range(root_children) = DagInputs
        /\ \A i, j \in 1..Len(root_children) :
              nodes[root_children[i]].proc = nodes[root_children[j]].proc
                  => i = j

-----------------------------------------------------------------------------
(* C27 *)

\* the nodes the DAG lists and the nodes its features are computed from
InDag == Range(dag_nodes) \cup Reachable(nodes, feature_nodes)

\* the children list of a node, of the Root too
ChildList(p) == IF p = Root THEN root_children ELSE nodes[p].children

\* C27: for all nodes p and n of the DAG, the Root included as a parent, n is
\* in the children list of p if and only if p is in the parents list of n,
\* and every parent of a node the DAG lists is the Root or is listed too.
C27_EdgeSymmetry ==
    /\ \A p \in InDag \cup {Root} : \A n \in InDag :
          n \in Range(ChildList(p)) <=> p \in Range(nodes[n].parents)
    /\ \A n \in Range(dag_nodes) :
          Range(nodes[n].parents) \subseteq Range(dag_nodes) \cup {Root}

-----------------------------------------------------------------------------
(* C28 *)

\* the fragment the step hands to add_pipeline, as it is before the call
FragmentBefore == nodes \o Instantiate(Pipelines[Last(added')], Len(nodes))

\* the nodes of that fragment the call puts in the DAG's node list
Absorbed == {n \in Range(dag_nodes') : n > Len(nodes) /\ n <= Len(FragmentBefore)}

\* C28: after a successful add_pipeline, every node absorbed from the
\* fragment has as many parents as in the fragment, and its i-th parent in
\* the DAG has the ancestor hash of its i-th parent in the fragment (an Input
\* node, which gets the Root as its parent, aside).
C28_ParentPositions ==
    [][(AddStep /\ err' = "ok") =>
         \A n \in Absorbed :
            nodes'[n].kind # "Input" =>
               /\ Len(nodes'[n].parents) = Len(FragmentBefore[n].parents)
               /\ \A i \in 1..Len(FragmentBefore[n].parents) :
                     AncestorHash(nodes', nodes'[n].parents[i])
                        = AncestorHash(FragmentBefore, FragmentBefore[n].parents[i])]_vars

-----------------------------------------------------------------------------
(* C29 *)

\* the unresolved dependencies of the DAG: the inputs under the Root that
\* are declared as feature references or are named like a registered feature
Pending == {n \in Range(root_children) :
               nodes[n].is_feat \/ nodes[n].proc \in features(feature_nodes)}

\* the step pulled a node, or removed a feature or a node that was not a
\* pending input
Acted ==
    \/ pulled' # pulled
    \/ features(feature_nodes') # features(feature_nodes)
    \/ \E n \in Range(dag_nodes) \ Range(dag_nodes') : n \notin Pending

\* C29: a prune_features call or an extraction that pulls or removes
\* anything, or that returns normally, leaves a DAG that is marked as solved
\* and has no unresolved dependency (so the call resolved the DAG before it
\* pulled or removed, and pulled or removed nothing if that failed).
C29_ResolvedBeforeUse ==
    [][((RunStep \/ PruneStep) /\ (Acted \/ err' = "ok")) =>
             /\ ~needs_solving'
             /\ \A n \in Range(root_children') :
                   /\ ~nodes'[n].is_feat
                   /\ nodes'[n].proc \notin features(feature_nodes')]_vars

\* the DAG had a dependency to resolve, the feature depending on another was
\* pruned by a call that resolved it, and an extraction has pulled nodes
C29_Witness ==
    /\ op.name = "extract_to_dict"
    /\ err = "ok"
    /\ 1 \in Range(added) /\ (3 \in Range(added) \/ 4 \in Range(added))
    /\ pruned = 1
    /\ solves = 1
    /\ pulled # EmptyMap
    /\ ~needs_solving

-----------------------------------------------------------------------------
(* C30 *)

\* what a node is and what it is connected to
Structure(arena, n) ==
    <<arena[n].kind, arena[n].proc, arena[n].is_feat, arena[n].parents,
      arena[n].children>>

\* C30: an extraction run on a DAG whose dependencies are solved leaves the
\* node list, the feature registry, the children of the Root and the
\* parents and children of every node as they were, creates no node and
\* leaves the DAG solved: it changes nothing but the cache state of nodes.
C30_ExtractionKeepsStructure ==
    [][(RunStep /\ ~needs_solving) =>
         /\ dag_nodes' = dag_nodes
         /\ feature_nodes' = feature_nodes
         /\ root_children' = root_children
         /\ ~needs_solving'
         /\ Len(nodes') = Len(nodes)
         /\ \A n \in 1..Len(nodes) :
               Structure(nodes', n) = Structure(nodes, n)]_vars

\* a second extraction, made on the solved DAG of the first, has pulled
\* nodes and left cache state behind
C30_Witness ==
    /\ op.name = "extract_to_dict"
    /\ runs = 2
    /\ ~needs_solving
    /\ Len(feature_nodes) >= 2
    /\ result.touched # {}
    /\ \E n \in Range(dag_nodes) :
          \/ nodes[n].failed_samples # {}
          \/ nodes[n].has_computed_batch
          \/ nodes[n].samples_cache # EmptyMap

-----------------------------------------------------------------------------
(* C31 *)

\* the DAG a new ExtractionDAG becomes when the pipelines of seq are added
RECURSIVE Rebuilt(_)
Rebuilt(seq) ==
    IF seq = <<>>
    THEN [nodes |-> <<>>, dag_nodes |-> <<>>, feature_nodes |-> <<>>,
          root_children |-> <<>>, needs_solving |-> FALSE, err |-> "ok"]
    ELSE add_pipeline(Rebuilt(Front(seq)), Pipelines[Last(seq)])

\* what the extraction the step makes gives on a freshly built DAG
OnFreshDag ==
    extract(Rebuilt(added), EmptyMap, EmptyMap, loader',
            CHOOSE o \in op'.sel : TRUE, Policy(skip_errors, op'.k = 1),
            dropped_features)

\* the run that gave r ended as the run e, with the same values
SameOutcome(r, e) == r.status = e.status /\ r.data = e.data

\* the step is an extraction that follows one a duplicate sample id aborted
AfterDuplicateStep == RunStep /\ err = "DuplicateSampleError"

\* C31: an extraction over a dataset with distinct sample ids that follows
\* an extraction aborted by a duplicate sample id ends as the same
\* extraction ends on a freshly built DAG, with the same values.
C31_DuplicateLeavesDagIntact ==
    [][(AfterDuplicateStep /\ DistinctIds(loader')) =>
         SameOutcome(result', OnFreshDag)]_vars

-----------------------------------------------------------------------------
(* C32 *)

\* the step is an extraction under the strict policy in which the exception
\* of a processor was raised again by its node
StrictFailure == RunStep /\ ~skip_errors /\ result'.raised # <<>>

\* C32: under the strict policy an extraction in which a processor raises
\* ends with the exception of that processor, no processor exception is
\* raised after the first one, and the exception that reaches the caller is
\* annotated with the node of the offending processor and the sample id.
C32_StrictFailureAnnotated ==
    [][StrictFailure =>
         /\ Len(result'.raised) = 1
         /\ result'.status \notin {"ok", "BadSampleException"}
         /\ err' = result'.status
         /\ result'.notes = {result'.raised[1]}]_vars

-----------------------------------------------------------------------------
(* C33 *)

\* how often node n was pulled for sample sid in the step
PullsIn(n, sid) == Count(pulled', <<n, sid>>) - Count(pulled, <<n, sid>>)

\* the batch nodes of the DAG that were pulled in the step
BatchPulledIn == {n \in Range(dag_nodes') :
                    /\ nodes'[n].kind = "Batch"
                    /\ \E sid \in SampleIds : PullsIn(n, sid) > 0}

\* C33: in an extraction run the whole-dataset step of every batch node that
\* is pulled runs exactly once, and a parent that has the batch node as its
\* only child is pulled at most once for each sample.
C33_BatchStepOncePerRun ==
    [][RunStep =>
         \A n \in BatchPulledIn :
            /\ nodes'[n].whole_steps = nodes[n].whole_steps + 1
            /\ \A i \in 1..Len(nodes'[n].parents) :
                  nodes'[nodes'[n].parents[i]].children = <<n>> =>
                     \A sid \in SampleIds :
                        PullsIn(nodes'[n].parents[i], sid) <= 1]_vars

-----------------------------------------------------------------------------
(* C34 *)

\* the step is an extraction with caching that went through the whole
\* dataset, so that every registered feature was pulled for every sample
CompleteCachedRun == RunStep /\ op'.k = 0 /\ err' = "ok"

\* C34: at the end of a complete extraction with caching, in either order,
\* no node of the DAG holds a cached value for a sample of the dataset.
C34_CachesDrain ==
    [][CompleteCachedRun =>
         \A n \in Range(dag_nodes') :
            \A i \in 1..Len(loader') :
               loader'[i].id \notin DOMAIN nodes'[n].samples_cache]_vars

-----------------------------------------------------------------------------
(* C35 *)

\* what the extraction the step makes gives when it is made with no_cache
WithoutCaching ==
    extract(Dag, calls, pulled, loader', CHOOSE o \in op'.sel : TRUE,
            Policy(skip_errors, TRUE), dropped_features)

\* the run that gave r returned what the run e returned, or both raised
SameReturn(r, e) ==
    /\ r.status = "ok" <=> e.status = "ok"
    /\ r.status = "ok" => r.data = e.data

\* C35: the first extraction of an extractor, made with caching, returns if
\* and only if the same extraction made with no_cache returns, and then
\* returns the same cells with the same values.
C35_CachingTransparent ==
    [][(RunStep /\ runs = 0 /\ op'.k = 0) =>
         SameReturn(result', WithoutCaching)]_vars

-----------------------------------------------------------------------------
(* C36 *)

\* the cells of a result: sample id, feature name, value
Cells(data) ==
    UNION {{<<sid, f, data[sid][f]>> : f \in DOMAIN data[sid]} :
              sid \in DOMAIN data}

\* the extraction order the step did not use
OtherOrder == IF op'.sel = {"feature"} THEN "sample" ELSE "feature"

\* what the extraction the step makes gives in the other extraction order
InOtherOrder ==
    extract(Dag, calls, pulled, loader', OtherOrder,
            Policy(skip_errors, op'.k = 1), dropped_features)

\* the run that gave r returned the cells the run e returned, or both raised
SameCells(r, e) ==
    /\ r.status = "ok" <=> e.status = "ok"
    /\ r.status = "ok" => Cells(r.data) = Cells(e.data)

-----------------------------------------------------------------------------
(* C37 *)

\* the nodes of S and all the nodes they are computed from, the Root aside
RECURSIVE Upwards(_)
Upwards(S) ==
    LET more == S \cup (UNION {Range(nodes[n].parents) : n \in S} \ {Root})
    IN IF more = S THEN S ELSE Upwards(more)

\* the nodes that node n is computed from, n itself only if it is on a cycle
StrictAnc(n) == Upwards(Range(nodes[n].parents) \ {Root})

\* C37: after add_pipeline and solve_dependencies calls that raised no
\* error, no node is among the nodes it is computed from.
C37_Acyclic ==
    err = "ok" => \A n \in 1..Len(nodes) : n \notin StrictAnc(n)

-----------------------------------------------------------------------------
(* C38 *)

\* seq read backwards
Reversed(seq) == [i \in 1..Len(seq) |-> seq[Len(seq) + 1 - i]]

\* the solved DAG a new ExtractionDAG becomes when the pipelines added so
\* far are added in the opposite order
OtherDeclarationOrder == solve_dependencies(Rebuilt(Reversed(added)))

\* the DAG holds, solved, a pipeline producing feature f and the pipeline
\* Feat("f") >> PlusOne >> Feat("k"), declared in one order or the other
DependencySolved ==
    /\ err = "ok"
    /\ ~needs_solving
    /\ pruned = 0
    /\ Len(added) = 2
    /\ Range(added) \in {{1, 4}, {7, 4}}

\* in DAG d the node feeding feature k has the registered Feature node of f,
\* which has a parent, as its only parent
DependentLinked(arena, reg) ==
    LET dependent == arena[Lookup(reg, "k")].parents[1]
    IN /\ arena[dependent].parents = <<Lookup(reg, "f")>>
       /\ arena[Lookup(reg, "f")].parents # <<>>

\* C38: whichever of the two pipelines was declared first, once the
\* dependencies are solved the node that takes Feat("f") as input has the
\* registered Feature node of f as its parent, and pulling feature k gives
\* what it gives when the pipelines are declared in the opposite order.
C38_DeclarationOrder ==
    DependencySolved =>
        /\ DependentLinked(nodes, feature_nodes)
        /\ \A s \in Range(DatasetA) :
              FeatureValue(nodes, feature_nodes, "k", s)
                 = FeatureValue(OtherDeclarationOrder.nodes,
                                OtherDeclarationOrder.feature_nodes, "k", s)

-----------------------------------------------------------------------------
(* C39 *)

\* the second run of an extractor, over the dataset of its first run, in
\* the same order and under the same policy, the first run having returned
SecondRunOfSame ==
    /\ RunStep
    /\ runs = 1
    /\ err = "ok"
    /\ loader' = loader
    /\ op' = op

\* C39: an extraction run that follows a completed run of the same
\* extractor over the same dataset completes too and returns the same
\* result, whatever nodes the DAG is made of.
C39_RerunSafe ==
    [][SecondRunOfSame => (err' = "ok" /\ result'.data = result.data)]_vars

-----------------------------------------------------------------------------
(* C40 *)

\* prune_features(remove=...) called with a non-empty selection of
\* features that are all registered
RemoveRegistered ==
    /\ PruneStep
    /\ op'.name = "prune_remove"
    /\ op'.sel # {}
    /\ op'.sel \subseteq features(feature_nodes)

\* C40: prune_features ends without an error for every non-empty selection
\* of registered features to remove, all the features and a feature with
\* its dependents included, and the Root node is not removed from the DAG.
C40_PruneTerminates ==
    [][RemoveRegistered => (err' = "ok" /\ Root \notin Range(dag_nodes'))]_vars

====
